---------------------------- MODULE Spec2Model ----------------------------
(***************************************************************************)
(* A model of the Kensho decompiler core (src/src/decompiler_prototype):   *)
(* the CFG builder, the dominator tree, SSA construction, the NZ-mask      *)
(* analysis, the rewrite engine and the function-result cache.             *)
(*                                                                         *)
(* Each subsystem has its own variables, initial predicate and next-state  *)
(* relation; a specification of one subsystem leaves the variables of the  *)
(* others at their idle values.                                            *)
(***************************************************************************)
EXTENDS Integers, Sequences, FiniteSets, TLC

VARIABLES
    \* ---- ControlFlowGraph::from_pcodes (cfg.rs) ----
    pcodes,          \* the op list handed to from_pcodes
    op_i,            \* position of the `for op in pcodes` loop (1-based, next op)
    current_block,   \* the block under construction
    cfg,             \* the ControlFlowGraph being built
    build_pc,        \* "idle" | "loop" | "done"
    \* ---- DominanceTree::compute (ssa.rs) ----
    idom,            \* the local HashMap<BlockId, Option<BlockId>>
    rpo,             \* reverse postorder of the blocks reachable from the entry
    changed,         \* the flag of the `while changed` loop
    rpo_i,           \* position of the `for &block_id in &rpo` loop
    pred_i,          \* position of the `for &pred in &predecessors` loop
    new_idom,        \* Option<BlockId>
    b1, b2,          \* the two pointers of intersect
    tree,            \* the DominanceTree returned
    dom_pc,          \* "idle" | "start" | "while" | "for" | "preds" | "intersect" | "store" | "done"
    \* ---- SSATransform (ssa.rs) ----
    dominance_frontier, \* HashMap<BlockId, HashSet<BlockId>>
    def_counters,    \* HashMap<Varnode, usize>
    var_stacks,      \* HashMap<Varnode, Vec<usize>>
    phi_vars,        \* the variables insert_phi_nodes has still to handle
    rename_todo,     \* the pending calls of rename_variables, next call first
    ssa_pc,          \* "idle" | "dominance" | "phi" | "rename" | "done"
    \* ---- Optimizer::optimize (optimizer.rs), NZMaskAnalyzer (nzmask.rs) ----
    opt_input,       \* the op list as handed to optimize
    opt_ops,         \* `ops`, rewritten in place
    masks,           \* NZMaskAnalyzer::masks
    nz_iteration,    \* `_iteration` of analyze_ops
    nz_i,            \* position of the `for op in ops` loop of analyze_ops
    nz_changed,      \* `changed` of analyze_ops
    iteration,       \* `iteration` of optimize
    opt_i,           \* position of the `for op in ops.iter_mut()` loop
    opt_changed,     \* `changed` of optimize
    stats,           \* OptimizationStats
    opt_pc,          \* "idle" | "analyze" | "rules" | "done"
    \* ---- ParallelDecompiler (parallel_analyzer.rs), one file fingerprint ----
    memory_cache,    \* Option<DecompileCache.results> held in memory for the fingerprint
    disk,            \* the cache file of the fingerprint
    torn,            \* two writes of the file have overlapped since it was last whole
    clock,           \* SystemTime::now, in seconds
    calls_left,      \* per thread: calls of decompile_function_cached still to make
    cpc,             \* per thread: position in decompile_function_cached
    call,            \* per thread: (function_address, max_instructions) of the call
    loaded,          \* per thread: what load_cache returned
    result,          \* per thread: `result` of the uncached run
    ret,             \* per thread: what the last call returned, and whether from the cache
    \* ---- ControlFlowAnalyzer (control_flow.rs) ----
    cf_idom,         \* the local `idom` of compute_dominators
    dominators,      \* ControlFlowAnalyzer::dominators
    loops,           \* ControlFlowAnalyzer::loops
    visited,         \* ControlFlowAnalyzer::visited
    structure,       \* Option<ControlStructure>: what analyze returned
    walk,            \* the loop analyze is inside: its exit block and `current`
    cf_pc,           \* "idle" | "dominators" | "detect" | "dominates" | "build" | "build_region" | "done"
    \* ---- TypeInference (type_inference.rs) ----
    an_ops,          \* the op list handed to the analysis of an op list
    constraints,     \* TypeInference::constraints
    inferred_types,  \* TypeInference::inferred_types
    type_candidates, \* TypeInference::type_candidates
    ti_i,            \* position of the `for op in ops` loop of infer_from_pcode
    ti_pc,           \* "idle" | "infer" | "propagate" | "resolve" | "done"
    \* ---- DefUseChain (dataflow.rs) ----
    du_ops,          \* DefUseChain::ops
    defs,            \* DefUseChain::defs: VarnodeId -> index of the defining op
    uses,            \* DefUseChain::uses: VarnodeId -> indices of the using ops
    traced,          \* Option<Varnode>: the argument of trace_copy_source
    trace_current,   \* `current` of trace_copy_source
    trace_visited,   \* `visited` of trace_copy_source
    source,          \* Option<Option<Varnode>>: what trace_copy_source returned
    du_pc,           \* "idle" | "build" | "built" | "trace" | "traced"
    \* ---- JumpTableDetector (jumptable.rs) ----
    tables,          \* `tables` of detect
    jt_i,            \* position of the `for op in ops` loop of detect
    jt_pc,           \* "idle" | "detect" | "done"
    \* ---- CopyPropagation (dataflow.rs) ----
    cp_ops,          \* the op list CopyPropagation::apply rewrites in place
    propagation_count, \* what the last apply returned
    cp_applied       \* how many times apply has run on the list

buildVars == <<pcodes, op_i, current_block, build_pc>>

domVars == <<idom, rpo, changed, rpo_i, pred_i, new_idom, b1, b2, tree, dom_pc>>

ssaVars == <<dominance_frontier, def_counters, var_stacks, phi_vars, rename_todo, ssa_pc>>

cacheVars == <<memory_cache, disk, torn, clock, calls_left, cpc, call, loaded, result, ret>>

optVars == <<opt_input, opt_ops, masks, nz_iteration, nz_i, nz_changed,
             iteration, opt_i, opt_changed, stats, opt_pc>>

cfaVars == <<cf_idom, dominators, loops, visited, structure, walk, cf_pc>>

\* The variables of the analyses that run on a finished CFG or op list.
typeVars == <<an_ops, constraints, inferred_types, type_candidates, ti_i, ti_pc>>

duVars == <<du_ops, defs, uses, traced, trace_current, trace_visited, source, du_pc>>

jtVars == <<tables, jt_i, jt_pc>>

cpVars == <<cp_ops, propagation_count, cp_applied>>

analysisVars == <<cfaVars, typeVars, duVars, jtVars, cpVars>>

\* What the actions of the CFG builder leave alone.
buildOthers == <<domVars, ssaVars, optVars, cacheVars, analysisVars>>

\* What the actions of DominanceTree::compute leave alone.
domOthers == <<cfg, buildVars, ssaVars, optVars, cacheVars, analysisVars>>

\* What the actions of SSATransform leave alone.
ssaOthers == <<buildVars, domVars, optVars, cacheVars, analysisVars>>

\* What the optimizer leaves alone.
optOthers == <<cfg, buildVars, domVars, ssaVars, cacheVars, analysisVars>>

\* What the cache leaves alone.
cacheOthers == <<cfg, buildVars, domVars, ssaVars, optVars, analysisVars>>

\* What ControlFlowAnalyzer leaves alone.
cfaOthers ==
    <<cfg, buildVars, domVars, ssaVars, optVars, cacheVars, typeVars, duVars, jtVars, cpVars>>

\* What TypeInference leaves alone.
typeOthers ==
    <<cfg, buildVars, domVars, ssaVars, optVars, cacheVars, cfaVars, duVars, jtVars, cpVars>>

\* What DefUseChain leaves alone.
duOthers ==
    <<cfg, buildVars, domVars, ssaVars, optVars, cacheVars, cfaVars, typeVars, jtVars, cpVars>>

\* What JumpTableDetector leaves alone (it only reads its DefUseChain).
jtOthers ==
    <<cfg, buildVars, domVars, ssaVars, optVars, cacheVars, cfaVars, typeVars, duVars, cpVars>>

\* What CopyPropagation::apply leaves alone (it only reads its DefUseChain).
cpOthers ==
    <<cfg, buildVars, domVars, ssaVars, optVars, cacheVars, cfaVars, typeVars, duVars, jtVars>>

vars == <<pcodes, op_i, current_block, cfg, build_pc,
          idom, rpo, changed, rpo_i, pred_i, new_idom, b1, b2, tree, dom_pc,
          dominance_frontier, def_counters, var_stacks, phi_vars, rename_todo, ssa_pc,
          opt_input, opt_ops, masks, nz_iteration, nz_i, nz_changed,
          iteration, opt_i, opt_changed, stats, opt_pc,
          memory_cache, disk, torn, clock, calls_left, cpc, call, loaded, result, ret,
          cf_idom, dominators, loops, visited, structure, walk, cf_pc,
          an_ops, constraints, inferred_types, type_candidates, ti_i, ti_pc,
          du_ops, defs, uses, traced, trace_current, trace_visited, source, du_pc,
          tables, jt_i, jt_pc, cp_ops, propagation_count, cp_applied>>

(***************************************************************************)
(* P-code values (pcode.rs)                                                *)
(***************************************************************************)

\* Option<T> is a sequence of length 0 (None) or 1 (Some).
None == <<>>

Some(x) == <<x>>

\* Varnode { space, offset, size }.  The 64-bit offset is kept as its two
\* 32-bit halves: offset = hi * 2^32 + lo.
Varnode(space, offset, size) ==
    [space |-> space, hi |-> 0, lo |-> offset, size |-> size]

constant(value, size) == Varnode("Const", value, size)

register(offset, size) == Varnode("Register", offset, size)

\* PcodeOp { opcode, output, inputs, address }.
PcodeOp(opcode, output, inputs, address) ==
    [opcode |-> opcode, output |-> output, inputs |-> inputs, address |-> address]

no_output(opcode, inputs, address) == PcodeOp(opcode, None, inputs, address)

unary(opcode, output, input, address) ==
    PcodeOp(opcode, Some(output), <<input>>, address)

binary(opcode, output, lhs, rhs, address) ==
    PcodeOp(opcode, Some(output), <<lhs, rhs>>, address)

Last(s) == s[Len(s)]

InSeq(x, s) == \E i \in 1..Len(s) : s[i] = x

(***************************************************************************)
(* CFG builder (cfg.rs)                                                    *)
(***************************************************************************)

\* Longest op list handed to the builder.
MaxOps == 3

\* BasicBlock::new
BasicBlock(id, start_address) ==
    [id |-> id, start_address |-> start_address, end_address |-> start_address,
     ops |-> <<>>, successors |-> <<>>, predecessors |-> <<>>]

\* BasicBlock::add_op
add_op(block, op) ==
    [block EXCEPT !.end_address = op.address, !.ops = Append(@, op)]

\* ControlFlowGraph::new; blocks is the HashMap<BlockId, BasicBlock>.
NewCfg == [blocks |-> <<>>, entry_block |-> 0, next_block_id |-> 0]

\* HashMap::insert on cfg.blocks (block ids are 0, 1, 2, ...; the map is kept
\* as a function on the ids inserted so far).
InsertBlock(blocks, block) ==
    [id \in (DOMAIN blocks) \cup {block.id} |->
        IF id = block.id THEN block ELSE blocks[id]]

\* The test `matches!(op.opcode, Branch | CBranch | BranchInd | Return)`.
should_split(op) == op.opcode \in {"Branch", "CBranch", "BranchInd", "Return"}

\* Op lists in machine-address order: the op at position i has address i-1.
\* Direct branches carry their target as a constant Varnode (x86_64.rs
\* decode_jmp / decode_je); target MaxOps lies outside the lifted range.
BuilderOpsAt(a) ==
    {unary("Copy", register(0, 8), constant(1, 8), a),
     no_output("Return", <<Varnode("Unique", 0, 8)>>, a),
     no_output("BranchInd", <<register(0, 8)>>, a)}
    \cup {no_output("Branch", <<constant(t, 8)>>, a) : t \in 0..MaxOps}
    \cup {no_output("CBranch", <<constant(t, 8), register(512, 1)>>, a) : t \in 0..MaxOps}

BuilderInputs ==
    UNION {{s \in [1..n -> UNION {BuilderOpsAt(a) : a \in 0..(MaxOps-1)}] :
                \A i \in 1..n : s[i].address = i - 1} : n \in 0..MaxOps}

\* DominanceTree::new
NewTree == [idom |-> <<>>, dominates |-> <<>>, children |-> <<>>]

DomIdle ==
    /\ idom = <<>>
    /\ rpo = <<>>
    /\ changed = FALSE
    /\ rpo_i = 1
    /\ pred_i = 1
    /\ new_idom = None
    /\ b1 = 0
    /\ b2 = 0
    /\ tree = NewTree
    /\ dom_pc = "idle"

\* SSATransform::new
SsaIdle ==
    /\ dominance_frontier = <<>>
    /\ def_counters = <<>>
    /\ var_stacks = <<>>
    /\ phi_vars = {}
    /\ rename_todo = <<>>
    /\ ssa_pc = "idle"

BuildIdle ==
    /\ pcodes = <<>>
    /\ op_i = 1
    /\ current_block = BasicBlock(0, 0)
    /\ build_pc = "idle"

\* OptimizationStats::default()
NewStats == [iterations |-> 0, total_applications |-> 0, applications_per_rule |-> <<>>]

\* NZMaskAnalyzer::new, OptimizationStats::default
OptIdle ==
    /\ opt_input = <<>>
    /\ opt_ops = <<>>
    /\ masks = <<>>
    /\ nz_iteration = 0
    /\ nz_i = 1
    /\ nz_changed = FALSE
    /\ iteration = 0
    /\ opt_i = 1
    /\ opt_changed = FALSE
    /\ stats = NewStats
    /\ opt_pc = "idle"

\* Number of threads calling into one ParallelDecompiler.
NumThreads == 2

Threads == 1..NumThreads

\* ParallelDecompiler::with_strategy, nothing called yet.
CacheIdle ==
    /\ memory_cache = None
    /\ disk = [state |-> "absent", results |-> <<>>]
    /\ torn = FALSE
    /\ clock = 0
    /\ calls_left = [t \in Threads |-> 0]
    /\ cpc = [t \in Threads |-> "idle"]
    /\ call = [t \in Threads |-> None]
    /\ loaded = [t \in Threads |-> None]
    /\ result = [t \in Threads |-> None]
    /\ ret = [t \in Threads |-> None]

\* ControlFlowAnalyzer::new
CfaIdle ==
    /\ cf_idom = <<>>
    /\ dominators = <<>>
    /\ loops = {}
    /\ visited = {}
    /\ structure = None
    /\ walk = None
    /\ cf_pc = "idle"

\* TypeInference::new
TypeIdle ==
    /\ an_ops = <<>>
    /\ constraints = <<>>
    /\ inferred_types = <<>>
    /\ type_candidates = <<>>
    /\ ti_i = 1
    /\ ti_pc = "idle"

\* DefUseChain::new
DuIdle ==
    /\ du_ops = <<>>
    /\ defs = <<>>
    /\ uses = <<>>
    /\ traced = None
    /\ trace_current = None
    /\ trace_visited = {}
    /\ source = None
    /\ du_pc = "idle"

\* No JumpTableDetector::detect under way.
JtIdle ==
    /\ tables = <<>>
    /\ jt_i = 1
    /\ jt_pc = "idle"

\* No CopyPropagation::apply has run.
CpIdle ==
    /\ cp_ops = <<>>
    /\ propagation_count = 0
    /\ cp_applied = 0

AnalysesIdle == CfaIdle /\ TypeIdle /\ DuIdle /\ JtIdle /\ CpIdle

InitBuild ==
    /\ AnalysesIdle
    /\ DomIdle
    /\ SsaIdle
    /\ OptIdle
    /\ CacheIdle
    /\ pcodes \in BuilderInputs
    /\ op_i = 1
    /\ current_block = IF pcodes = <<>> THEN BasicBlock(0, 0)
                       ELSE BasicBlock(0, pcodes[1].address)
    /\ cfg = IF pcodes = <<>> THEN NewCfg
             ELSE [NewCfg EXCEPT !.entry_block = 0, !.next_block_id = 1]
    /\ build_pc = IF pcodes = <<>> THEN "done" ELSE "loop"

\* One iteration of `for op in pcodes`.
FromPcodesStep ==
    /\ build_pc = "loop"
    /\ op_i <= Len(pcodes)
    /\ LET op == pcodes[op_i]
           filled == add_op(current_block, op)
       IN  IF should_split(op)
           THEN /\ cfg' = [cfg EXCEPT !.blocks = InsertBlock(@, filled),
                                      !.next_block_id = @ + 1]
                /\ current_block' = BasicBlock(cfg.next_block_id, 0)
           ELSE /\ cfg' = cfg
                /\ current_block' = filled
    /\ op_i' = op_i + 1
    /\ UNCHANGED <<pcodes, build_pc>>
    /\ UNCHANGED buildOthers

\* After the loop: the last block is added when it holds an op.
FromPcodesFinish ==
    /\ build_pc = "loop"
    /\ op_i > Len(pcodes)
    /\ cfg' = IF current_block.ops # <<>>
              THEN [cfg EXCEPT !.blocks = InsertBlock(@, current_block)]
              ELSE cfg
    /\ build_pc' = "done"
    /\ UNCHANGED <<pcodes, op_i, current_block>>
    /\ UNCHANGED buildOthers

NextBuild == FromPcodesStep \/ FromPcodesFinish

BuildSpec == InitBuild /\ [][NextBuild]_vars

(***************************************************************************)
(* Claims about the CFG builder                                            *)
(***************************************************************************)

\* The blocks of the built CFG whose first op lies at address t.
BlocksStartingAt(t) ==
    {v \in DOMAIN cfg.blocks : cfg.blocks[v].ops[1].address = t}

EdgeRecorded(u, v) ==
    /\ InSeq(v, cfg.blocks[u].successors)
    /\ InSeq(u, cfg.blocks[v].predecessors)

\* C1: in the CFG returned by from_pcodes, a block ending in a direct branch
\* has the block starting at the branch target as successor, a block ending
\* in a conditional branch has the target block and the fall-through block
\* as successors, a block ending in return has no successors, and every edge
\* is recorded in both successors and predecessors.
C1_EdgesOfBuiltCfg ==
    build_pc = "done" =>
        \A u \in DOMAIN cfg.blocks :
            LET last == Last(cfg.blocks[u].ops)
                target == last.inputs[1].lo
            IN  /\ last.opcode \in {"Branch", "CBranch"} =>
                    \A v \in BlocksStartingAt(target) : EdgeRecorded(u, v)
                /\ (last.opcode = "CBranch" /\ u + 1 \in DOMAIN cfg.blocks) =>
                    EdgeRecorded(u, u + 1)
                /\ last.opcode = "Return" => cfg.blocks[u].successors = <<>>

(***************************************************************************)
(* Dominator tree (ssa.rs, DominanceTree)                                  *)
(***************************************************************************)

\* Number of blocks of the hand-built CFGs given to DominanceTree::compute.
MaxBlocks == 4

\* Most successors a block of those CFGs has (a two-way branch).
MaxSucc == 2

BlockIds(n) == 0..(n - 1)

RECURSIVE SortedSeq(_)
\* The elements of a finite set of integers in ascending order.
SortedSeq(S) ==
    IF S = {} THEN <<>>
    ELSE LET m == CHOOSE x \in S : \A y \in S : x <= y
         IN  <<m>> \o SortedSeq(S \ {m})

\* The CFGs built by hand as in ssa.rs test_dominance_tree: every block is
\* inserted, successors are pushed block by block and the predecessor lists
\* mirror them (mutually consistent edge lists).  opsOf gives each block's ops.
HandBuiltCfg(n, succ, opsOf) ==
    [blocks |-> [id \in BlockIds(n) |->
        [id |-> id, start_address |-> id, end_address |-> id,
         ops |-> opsOf[id],
         successors |-> SortedSeq(succ[id]),
         predecessors |-> SortedSeq({u \in BlockIds(n) : id \in succ[u]})]],
     entry_block |-> 0,
     next_block_id |-> 0]

SuccChoices(n) == {S \in SUBSET BlockIds(n) : Cardinality(S) <= MaxSucc}

Blocks == DOMAIN cfg.blocks

Successors(b) == cfg.blocks[b].successors

Predecessors(b) == cfg.blocks[b].predecessors

RECURSIVE dfs(_, _)
RECURSIVE dfsSuccessors(_, _, _)
\* The nested fn dfs of reverse_postorder; st = [visited, postorder].
dfs(block_id, st) ==
    IF block_id \in st.visited THEN st
    ELSE LET entered == [st EXCEPT !.visited = @ \cup {block_id}]
             after == IF block_id \in Blocks
                      THEN dfsSuccessors(Successors(block_id), 1, entered)
                      ELSE entered
         IN  [after EXCEPT !.postorder = Append(@, block_id)]

\* `for &successor in &block.successors { dfs(...) }`
dfsSuccessors(succs, i, st) ==
    IF i > Len(succs) THEN st
    ELSE dfsSuccessors(succs, i + 1, dfs(succs[i], st))

Reverse(s) == [i \in 1..Len(s) |-> s[Len(s) + 1 - i]]

\* DominanceTree::reverse_postorder
reverse_postorder(entry) ==
    Reverse(dfs(entry, [visited |-> {}, postorder |-> <<>>]).postorder)

\* rpo_pos.get(&b).copied().unwrap_or(999)
RpoPosDefault == 999

rpo_pos(b) ==
    IF \E i \in 1..Len(rpo) : rpo[i] = b
    THEN (CHOOSE i \in 1..Len(rpo) : rpo[i] = b) - 1
    ELSE RpoPosDefault

\* idom.get(&b) flattened: Some(next) only for `Some(Some(next))`.
IdomOf(b) == IF b \in DOMAIN idom THEN idom[b] ELSE None

RECURSIVE WalkUp(_, _)
\* One inner loop of intersect:
\*   while rpo_pos[b] < rpo_pos[other] { if let Some(Some(next)) = idom.get(&b)
\*                                        { b = next } else { break } }
WalkUp(b, other) ==
    IF rpo_pos(b) < rpo_pos(other) /\ IdomOf(b) # None
    THEN WalkUp(IdomOf(b)[1], other)
    ELSE b

\* `idom.get(&pred).and_then(|x| *x).is_some() || pred == entry`
Processed(pred) == IdomOf(pred) # None \/ pred = cfg.entry_block

\* The permutations of a finite set, as sequences (the orders in which a
\* HashMap iteration can deliver it).
Orders(S) ==
    {s \in [1..Cardinality(S) -> S] : \A x \in S : \E i \in 1..Cardinality(S) : s[i] = x}

\* compute_dominates without `dominated.extend(child_dominated.iter())`.
DominatedNoClosure(children, block_id) ==
    {block_id} \cup {children[block_id][i] : i \in 1..Len(children[block_id])}

RECURSIVE compute_dominates(_, _)
\* DominanceTree::compute_dominates: the set inserted for block_id, built from
\* the sets of its children.
compute_dominates(children, block_id) ==
    {block_id}
    \cup UNION {compute_dominates(children, children[block_id][i]) \cup {children[block_id][i]} :
                    i \in 1..Len(children[block_id])}

RECURSIVE TreeNodes(_, _)
\* The blocks compute_dominates visits from block_id (those that get an entry
\* in tree.dominates).
TreeNodes(children, block_id) ==
    {block_id}
    \cup UNION {TreeNodes(children, children[block_id][i]) : i \in 1..Len(children[block_id])}

InitDom ==
    /\ \E succ \in [BlockIds(MaxBlocks) -> SuccChoices(MaxBlocks)] :
          cfg = HandBuiltCfg(MaxBlocks, succ, [id \in BlockIds(MaxBlocks) |-> <<>>])
    /\ BuildIdle
    /\ AnalysesIdle
    /\ OptIdle
    /\ CacheIdle
    /\ SsaIdle
    /\ idom = <<>>
    /\ rpo = <<>>
    /\ changed = FALSE
    /\ rpo_i = 1
    /\ pred_i = 1
    /\ new_idom = None
    /\ b1 = 0
    /\ b2 = 0
    /\ tree = NewTree
    /\ dom_pc = "start"

\* compute, up to the `while changed` loop: every block starts undefined.
ComputeBegin ==
    /\ dom_pc = "start"
    /\ idom' = [b \in Blocks |-> None]
    /\ rpo' = reverse_postorder(cfg.entry_block)
    /\ changed' = TRUE
    /\ dom_pc' = "while"
    /\ UNCHANGED <<rpo_i, pred_i, new_idom, b1, b2, tree>>
    /\ UNCHANGED domOthers

\* The head of `while changed`.
WhileChanged ==
    /\ dom_pc = "while"
    /\ IF changed
       THEN /\ changed' = FALSE
            /\ rpo_i' = 1
            /\ dom_pc' = "for"
       ELSE /\ dom_pc' = "store"
            /\ UNCHANGED <<changed, rpo_i>>
    /\ UNCHANGED <<idom, rpo, pred_i, new_idom, b1, b2, tree>>
    /\ UNCHANGED domOthers

\* The head of `for &block_id in &rpo`, with the two `continue`s.
ForBlock ==
    /\ dom_pc = "for"
    /\ IF rpo_i > Len(rpo)
       THEN /\ dom_pc' = "while"
            /\ UNCHANGED <<rpo_i, pred_i, new_idom>>
       ELSE LET block_id == rpo[rpo_i]
            IN  IF block_id = cfg.entry_block \/ Predecessors(block_id) = <<>>
                THEN /\ rpo_i' = rpo_i + 1
                     /\ UNCHANGED <<dom_pc, pred_i, new_idom>>
                ELSE /\ new_idom' = None
                     /\ pred_i' = 1
                     /\ dom_pc' = "preds"
                     /\ UNCHANGED rpo_i
    /\ UNCHANGED <<idom, rpo, changed, b1, b2, tree>>
    /\ UNCHANGED domOthers

\* One iteration of `for &pred in &predecessors`; after the last one the
\* comparison `new_idom != idom[&block_id]`.
PredStep ==
    /\ dom_pc = "preds"
    /\ LET block_id == rpo[rpo_i]
           preds == Predecessors(block_id)
       IN  IF pred_i > Len(preds)
           THEN /\ IF new_idom # idom[block_id]
                   THEN /\ idom' = [idom EXCEPT ![block_id] = new_idom]
                        /\ changed' = TRUE
                   ELSE UNCHANGED <<idom, changed>>
                /\ rpo_i' = rpo_i + 1
                /\ dom_pc' = "for"
                /\ UNCHANGED <<pred_i, new_idom, b1, b2>>
           ELSE LET pred == preds[pred_i]
                IN  IF Processed(pred)
                    THEN IF new_idom = None
                         THEN /\ new_idom' = Some(pred)
                              /\ pred_i' = pred_i + 1
                              /\ UNCHANGED <<idom, changed, rpo_i, b1, b2, dom_pc>>
                         ELSE /\ b1' = new_idom[1]
                              /\ b2' = pred
                              /\ dom_pc' = "intersect"
                              /\ UNCHANGED <<idom, changed, rpo_i, pred_i, new_idom>>
                    ELSE /\ pred_i' = pred_i + 1
                         /\ UNCHANGED <<idom, changed, rpo_i, new_idom, b1, b2, dom_pc>>
    /\ UNCHANGED <<rpo, tree>>
    /\ UNCHANGED domOthers

\* intersect: the test of `while b1 != b2` and one pass of its body (both
\* inner loops); on exit the result b1 becomes new_idom.
IntersectPass ==
    /\ dom_pc = "intersect"
    /\ IF b1 = b2
       THEN /\ new_idom' = Some(b1)
            /\ pred_i' = pred_i + 1
            /\ dom_pc' = "preds"
            /\ UNCHANGED <<b1, b2>>
       ELSE /\ b1' = WalkUp(b1, b2)
            /\ b2' = WalkUp(b2, WalkUp(b1, b2))
            /\ UNCHANGED <<new_idom, pred_i, dom_pc>>
    /\ UNCHANGED <<idom, rpo, changed, rpo_i, tree>>
    /\ UNCHANGED domOthers

\* `for (block_id, dom) in idom { ... children.entry(dominator).push(block_id) }`
\* for one iteration order of the HashMap.
ChildrenInOrder(order) ==
    [d \in Blocks |-> SelectSeq(order, LAMBDA b : idom[b] = Some(d))]

\* The tail of compute: the idom map is moved into the tree (children are
\* pushed in the iteration order of the HashMap, which is arbitrary), then
\* compute_dominates(entry).
StoreTree ==
    /\ dom_pc = "store"
    /\ \E order \in Orders(Blocks) :
          LET children == ChildrenInOrder(order)
          IN  tree' = [idom |-> idom,
                       children |-> children,
                       dominates |->
                         [b \in Blocks |->
                             IF b \in TreeNodes(children, cfg.entry_block)
                             THEN compute_dominates(children, b)
                             ELSE {}]]
    /\ dom_pc' = "done"
    /\ UNCHANGED <<idom, rpo, changed, rpo_i, pred_i, new_idom, b1, b2>>
    /\ UNCHANGED domOthers

NextDom ==
    \/ ComputeBegin
    \/ WhileChanged
    \/ ForBlock
    \/ PredStep
    \/ IntersectPass
    \/ StoreTree

DomSpec == InitDom /\ [][NextDom]_vars

\* DominanceTree::dominates
dominates(dominator, block) ==
    dominator \in DOMAIN tree.dominates /\ block \in tree.dominates[dominator]

\* DominanceTree::immediate_dominator
immediate_dominator(block) ==
    IF block \in DOMAIN tree.idom THEN tree.idom[block] ELSE None

(***************************************************************************)
(* Claims about the dominator tree                                         *)
(***************************************************************************)

RECURSIVE ReachAvoiding(_, _)
\* The blocks reachable from the blocks of S along successor edges without
\* entering the block `avoid` (-1: nothing is avoided).
ReachAvoiding(S, avoid) ==
    LET next == S \cup {v \in Blocks \ {avoid} :
                          \E u \in S : InSeq(v, Successors(u))}
    IN  IF next = S THEN S ELSE ReachAvoiding(next, avoid)

Reachable == ReachAvoiding({cfg.entry_block}, -1)

\* Every path from the entry to B passes through A.
EveryPathPasses(A, B) ==
    \/ A = B
    \/ A = cfg.entry_block
    \/ B \notin ReachAvoiding({cfg.entry_block}, A)

\* The loop `while b1 != b2` of intersect is at a pass that changes neither
\* pointer: the next test finds the same b1 != b2, and so does every later one.
IntersectSpins ==
    /\ dom_pc = "intersect"
    /\ b1 # b2
    /\ WalkUp(b1, b2) = b1
    /\ WalkUp(b2, b1) = b2

\* C2: DominanceTree::compute terminates on every finite CFG with consistent
\* edge lists: no two-pointer intersection reaches a pass of its loop that
\* leaves both pointers where they are while they still differ.
C2_IntersectReturns == ~IntersectSpins

SsaBlocks == 3

\* SSATransform::same_variable: `offset & 0xFFFFFFFF` is the low half.
same_variable(v1, v2) ==
    v1.space = v2.space /\ v1.lo = v2.lo /\ v1.size = v2.size

\* `offset = (offset & 0xFFFFFFFF) | ((version as u64) << 32)`: the low half
\* is kept and the high half becomes the version.
WithVersion(vn, version) == [vn EXCEPT !.hi = version]

OpsOf(b) == cfg.blocks[b].ops

\* The ops a block of the input CFG holds (address 0 throughout).
BlockOpsMenu ==
    {<<>>,
     <<unary("Copy", register(0, 8), constant(1, 8), 0)>>,
     <<binary("IntAdd", register(8, 8), register(0, 8), constant(1, 8), 0),
       unary("Copy", register(0, 8), register(8, 8), 0)>>}

RECURSIVE Runners(_, _)
\* The `loop` of compute_dominance_frontier for one predecessor: the runners
\* whose frontier receives block_id.
Runners(runner, block_id) ==
    {runner} \cup
        IF immediate_dominator(block_id) = Some(runner) THEN {}
        ELSE IF immediate_dominator(runner) # None
             THEN Runners(immediate_dominator(runner)[1], block_id)
             ELSE {}

\* SSATransform::compute_dominance_frontier
compute_dominance_frontier ==
    [r \in Blocks |->
        {b \in Blocks :
            /\ Len(Predecessors(b)) >= 2
            /\ \E i \in 1..Len(Predecessors(b)) : r \in Runners(Predecessors(b)[i], b)}]

\* SSATransform::collect_all_variables
collect_all_variables ==
    UNION {UNION {{op.output[k] : k \in 1..Len(op.output)}
                  \cup {op.inputs[k] : k \in {n \in 1..Len(op.inputs) : op.inputs[n].space # "Const"}} :
                        op \in {OpsOf(b)[i] : i \in 1..Len(OpsOf(b))}} : b \in Blocks}

\* The def_blocks of insert_phi_nodes for one variable.
def_blocks(var) ==
    {b \in Blocks : \E i \in 1..Len(OpsOf(b)) :
        /\ OpsOf(b)[i].output # None
        /\ same_variable(OpsOf(b)[i].output[1], var)}

RECURSIVE phi_blocks(_, _)
\* The worklist loop of insert_phi_nodes: the blocks that receive a phi, from
\* the frontier of the seeds and of every block that received one.
phi_blocks(found, seeds) ==
    LET next == found \cup UNION {dominance_frontier[b] : b \in seeds \cup found}
    IN  IF next = found THEN found ELSE phi_blocks(next, seeds)

\* The phi op inserted for var at the head of block b.
phi_op(var, b) ==
    PcodeOp("MultiEqual", Some(var),
            [k \in 1..Len(Predecessors(b)) |-> var],
            cfg.blocks[b].start_address)

\* The renaming of one use: the top of the stack stored under exactly this
\* Varnode, if there is one.
RenameUse(input, stacks) ==
    IF /\ input.space # "Const"
       /\ input \in DOMAIN stacks
       /\ stacks[input] # <<>>
    THEN WithVersion(input, Last(stacks[input]))
    ELSE input

\* HashMap::insert
MapPut(map, key, value) ==
    [k \in (DOMAIN map) \cup {key} |-> IF k = key THEN value ELSE map[k]]

RECURSIVE RenameOps(_, _)
\* `for i in 0..ops_len` of rename_variables; st = [ops, counters, stacks].
RenameOps(i, st) ==
    IF i > Len(st.ops) THEN st
    ELSE LET op == st.ops[i]
             inputs == [k \in 1..Len(op.inputs) |-> RenameUse(op.inputs[k], st.stacks)]
             renames == op.output # None /\ op.output[1].space # "Const"
             out == op.output[1]
             version == (IF out \in DOMAIN st.counters THEN st.counters[out] ELSE 0) + 1
             stack == IF out \in DOMAIN st.stacks THEN st.stacks[out] ELSE <<>>
         IN  RenameOps(i + 1,
                 IF renames
                 THEN [ops |-> [st.ops EXCEPT ![i] =
                                   [op EXCEPT !.inputs = inputs,
                                              !.output = Some(WithVersion(out, version))]],
                       counters |-> MapPut(st.counters, out, version),
                       stacks |-> MapPut(st.stacks, out, Append(stack, version))]
                 ELSE [st EXCEPT !.ops[i].inputs = inputs])

\* The update of the phi ops of one successor: every input of every
\* multi-equal op is looked up in the stacks.
UpdatePhis(ops, stacks) ==
    [i \in 1..Len(ops) |->
        IF ops[i].opcode = "MultiEqual"
        THEN [ops[i] EXCEPT !.inputs =
                 [k \in 1..Len(ops[i].inputs) |-> RenameUse(ops[i].inputs[k], stacks)]]
        ELSE ops[i]]

InitSsa ==
    /\ \E succ \in [BlockIds(SsaBlocks) -> SuccChoices(SsaBlocks)] :
       \E opsOf \in [BlockIds(SsaBlocks) -> BlockOpsMenu] :
          cfg = HandBuiltCfg(SsaBlocks, succ, opsOf)
    /\ BuildIdle
    /\ AnalysesIdle
    /\ OptIdle
    /\ CacheIdle
    /\ idom = <<>>
    /\ rpo = <<>>
    /\ changed = FALSE
    /\ rpo_i = 1
    /\ pred_i = 1
    /\ new_idom = None
    /\ b1 = 0
    /\ b2 = 0
    /\ tree = NewTree
    /\ dom_pc = "start"
    /\ dominance_frontier = <<>>
    /\ def_counters = <<>>
    /\ var_stacks = <<>>
    /\ phi_vars = {}
    /\ rename_todo = <<>>
    /\ ssa_pc = "dominance"

\* transform, step 2, once DominanceTree::compute has returned; then
\* insert_phi_nodes collects the variables.
ComputeFrontier ==
    /\ ssa_pc = "dominance"
    /\ dom_pc = "done"
    /\ dominance_frontier' = compute_dominance_frontier
    /\ phi_vars' = collect_all_variables
    /\ ssa_pc' = "phi"
    /\ UNCHANGED <<cfg, tree, def_counters, var_stacks, rename_todo>>
    /\ UNCHANGED ssaOthers

\* insert_phi_nodes: one iteration of `for var in all_vars` (the variables
\* come out of a HashSet, in any order).
InsertPhiNodes ==
    /\ ssa_pc = "phi"
    /\ \E var \in phi_vars :
          LET targets == phi_blocks({}, def_blocks(var))
          IN  /\ cfg' = [cfg EXCEPT !.blocks =
                            [b \in Blocks |->
                                IF b \in targets
                                THEN [cfg.blocks[b] EXCEPT !.ops = <<phi_op(var, b)>> \o @]
                                ELSE cfg.blocks[b]]]
              /\ phi_vars' = phi_vars \ {var}
    /\ UNCHANGED <<tree, dominance_frontier, def_counters, var_stacks, rename_todo, ssa_pc>>
    /\ UNCHANGED ssaOthers

\* transform, step 4: rename_variables(cfg, cfg.entry_block) is called.
BeginRename ==
    /\ ssa_pc = "phi"
    /\ phi_vars = {}
    /\ rename_todo' = <<cfg.entry_block>>
    /\ ssa_pc' = "rename"
    /\ UNCHANGED <<cfg, tree, dominance_frontier, def_counters, var_stacks, phi_vars>>
    /\ UNCHANGED ssaOthers

\* One call of rename_variables, up to its recursive calls: the ops of the
\* block, the phi ops of its successors; the calls for its dominator-tree
\* children come next, in order.  Nothing is popped.
RenameVariables ==
    /\ ssa_pc = "rename"
    /\ rename_todo # <<>>
    /\ LET block_id == Head(rename_todo)
           st == RenameOps(1, [ops |-> OpsOf(block_id),
                               counters |-> def_counters,
                               stacks |-> var_stacks])
           renamed == [cfg.blocks EXCEPT ![block_id].ops = st.ops]
       IN  /\ cfg' = [cfg EXCEPT !.blocks =
                         [b \in Blocks |->
                             IF InSeq(b, Successors(block_id))
                             THEN [renamed[b] EXCEPT !.ops = UpdatePhis(@, st.stacks)]
                             ELSE renamed[b]]]
           /\ def_counters' = st.counters
           /\ var_stacks' = st.stacks
           /\ rename_todo' = tree.children[block_id] \o Tail(rename_todo)
    /\ UNCHANGED <<tree, dominance_frontier, phi_vars, ssa_pc>>
    /\ UNCHANGED ssaOthers

\* transform returns.
TransformReturn ==
    /\ ssa_pc = "rename"
    /\ rename_todo = <<>>
    /\ ssa_pc' = "done"
    /\ UNCHANGED <<cfg, tree, dominance_frontier, def_counters, var_stacks, phi_vars, rename_todo>>
    /\ UNCHANGED ssaOthers

NextSsa ==
    \/ ComputeBegin
    \/ WhileChanged
    \/ ForBlock
    \/ PredStep
    \/ IntersectPass
    \/ StoreTree
    \/ ComputeFrontier
    \/ InsertPhiNodes
    \/ BeginRename
    \/ RenameVariables
    \/ TransformReturn

SsaSpec == InitSsa /\ [][NextSsa]_vars

(***************************************************************************)
(* Claims about SSA construction                                           *)
(***************************************************************************)

\* The places (block, index) of the ops with a non-constant output.
Definitions ==
    {pl \in UNION {{<<b, i>> : i \in 1..Len(OpsOf(b))} : b \in Blocks} :
        /\ OpsOf(pl[1])[pl[2]].output # None
        /\ OpsOf(pl[1])[pl[2]].output[1].space # "Const"}

OutputAt(pl) == OpsOf(pl[1])[pl[2]].output[1]

\* C4: after SSATransform::transform returns, no two ops of the CFG, over all
\* of its blocks, have the same non-constant output Varnode.
C4_SingleAssignment ==
    ssa_pc = "done" =>
        \A p \in Definitions : \A q \in Definitions \ {p} : OutputAt(p) # OutputAt(q)

\* The blocks in which a non-phi op writes var.
WrittenIn(var) ==
    {b \in Blocks : \E i \in 1..Len(OpsOf(b)) :
        /\ OpsOf(b)[i].opcode # "MultiEqual"
        /\ OpsOf(b)[i].output # None
        /\ same_variable(OpsOf(b)[i].output[1], var)}

\* The dominance frontier of A by its definition: the reachable blocks B with
\* a reachable predecessor dominated by A that A does not strictly dominate.
FrontierOf(A) ==
    {B \in Reachable :
        /\ \E i \in 1..Len(Predecessors(B)) :
              /\ Predecessors(B)[i] \in Reachable
              /\ EveryPathPasses(A, Predecessors(B)[i])
        /\ ~(A # B /\ EveryPathPasses(A, B))}

RECURSIVE IteratedFrontier(_, _)
IteratedFrontier(found, seeds) ==
    LET next == found \cup UNION {FrontierOf(b) : b \in seeds \cup found}
    IN  IF next = found THEN found ELSE IteratedFrontier(next, seeds)

\* The multi-equal ops at the head of block b.
LeadingPhis(b) ==
    {i \in 1..Len(OpsOf(b)) : \A k \in 1..i : OpsOf(b)[k].opcode = "MultiEqual"}

\* C5: for a variable written in two or more blocks, transform completes
\* (the dominator computation it starts with does not spin), and afterwards
\* every join block in the iterated dominance frontier of the writing blocks
\* begins with a multi-equal op for the variable with one input per
\* predecessor.
C5_PhiAtJoins ==
    /\ (ssa_pc = "dominance" /\ \E var \in collect_all_variables :
                                    Cardinality(WrittenIn(var)) >= 2)
          => ~IntersectSpins
    /\ ssa_pc = "done" =>
          \A var \in {WithVersion(v, 0) : v \in collect_all_variables} :
              Cardinality(WrittenIn(var) \cap Reachable) >= 2 =>
                  \A D \in IteratedFrontier({}, WrittenIn(var) \cap Reachable) :
                      \E i \in LeadingPhis(D) :
                          /\ same_variable(OpsOf(D)[i].output[1], var)
                          /\ Len(OpsOf(D)[i].inputs) = Len(Predecessors(D))

RECURSIVE ReachingDefAtEnd(_, _)
\* The definition of var current at the end of block P: the output of the
\* last op of P that writes var; without one, the definition current at the
\* end of P's immediate dominator; without a dominator, the function-entry
\* value (the unversioned Varnode).
ReachingDefAtEnd(P, var) ==
    LET writes == {i \in 1..Len(OpsOf(P)) :
                      /\ OpsOf(P)[i].output # None
                      /\ same_variable(OpsOf(P)[i].output[1], var)}
    IN  IF writes # {}
        THEN OpsOf(P)[CHOOSE i \in writes : \A k \in writes : k <= i].output[1]
        ELSE IF immediate_dominator(P) # None
             THEN ReachingDefAtEnd(immediate_dominator(P)[1], var)
             ELSE WithVersion(var, 0)

\* C6: after renaming, the i-th input of every multi-equal op of a block is
\* the definition of the phi's variable that is current at the end of the
\* block's i-th predecessor.
C6_PhiInputsByPredecessor ==
    ssa_pc = "done" =>
        \A D \in Reachable : \A n \in 1..Len(OpsOf(D)) :
            OpsOf(D)[n].opcode = "MultiEqual" =>
                \A i \in 1..Len(OpsOf(D)[n].inputs) :
                    OpsOf(D)[n].inputs[i] =
                        ReachingDefAtEnd(Predecessors(D)[i], OpsOf(D)[n].output[1])


\* The dominator tree holds the dominance relation of the CFG.
TreeIsCorrect ==
    \A A \in Reachable : \A B \in Reachable : dominates(A, B) <=> EveryPathPasses(A, B)

\* C29: on a correct dominator tree, once compute_dominance_frontier has
\* returned, B is in the frontier of A exactly when A dominates a
\* predecessor of B and does not strictly dominate B.
C29_FrontierIsDefinition ==
    (ssa_pc \in {"phi", "rename", "done"} /\ TreeIsCorrect) =>
        \A A \in Reachable : \A B \in Reachable :
            B \in dominance_frontier[A]
                <=> /\ \E i \in 1..Len(Predecessors(B)) :
                          /\ Predecessors(B)[i] \in Reachable
                          /\ dominates(A, Predecessors(B)[i])
                    /\ ~(A # B /\ dominates(A, B))

\* C28: when the call of rename_variables for the entry block has returned,
\* all its dominator-tree children processed, every definition stack holds
\* what it held when the call was made: nothing.
C28_StacksRestoredOnReturn ==
    ssa_pc = "done" => \A vn \in DOMAIN var_stacks : var_stacks[vn] = <<>>

(***************************************************************************)
(* Non-zero masks (nzmask.rs, NZMaskAnalyzer)                              *)
(*                                                                         *)
(* The masks are u64 in the code.  Every Varnode here is 1 or 2 bytes wide *)
(* and every shift amount at most MaxShift, so every u64 value that occurs *)
(* is below 2^31 and the u64 operations are exact on the integers.         *)
(***************************************************************************)

RECURSIVE BitAnd(_, _)
\* a & b
BitAnd(a, b) ==
    IF a = 0 \/ b = 0 THEN 0
    ELSE (a % 2) * (b % 2) + 2 * BitAnd(a \div 2, b \div 2)

RECURSIVE BitOr(_, _)
\* a | b
BitOr(a, b) ==
    IF a = 0 THEN b
    ELSE IF b = 0 THEN a
    ELSE (IF (a % 2) + (b % 2) > 0 THEN 1 ELSE 0) + 2 * BitOr(a \div 2, b \div 2)

RECURSIVE BitXor(_, _)
\* a ^ b
BitXor(a, b) ==
    IF a = 0 THEN b
    ELSE IF b = 0 THEN a
    ELSE (((a % 2) + (b % 2)) % 2) + 2 * BitXor(a \div 2, b \div 2)

\* a << n and a >> n on u64, for results below 2^31.
Shl(a, n) == a * 2^n

Shr(a, n) == a \div 2^n

\* `val1 << val2` on u64 where the shift amount is not checked against the
\* width: the processor takes it mod 64.  The low 16 bits of the result.
UncheckedShl(val1, val2) ==
    IF (val2 % 64) >= 16 THEN 0 ELSE Shl(val1, val2 % 64) % 2^16

\* `val1 >> val2` on u64 likewise, for val1 below 2^31.
UncheckedShr(val1, val2) ==
    IF (val2 % 64) >= 31 THEN 0 ELSE Shr(val1, val2 % 64)

\* NZMaskAnalyzer::calc_mask, OptimizerContext::calc_mask.  For size >= 8 the
\* code returns u64::MAX = 2^64 - 1, which is this expression at size 8.
calc_mask(size) == 2^(size * 8) - 1

\* NZMaskAnalyzer::get_nzmask
get_nzmask(m, vn) ==
    IF vn \in DOMAIN m THEN m[vn]
    ELSE IF vn.space = "Const" THEN BitAnd(vn.lo, calc_mask(vn.size))
    ELSE calc_mask(vn.size)

\* NZMaskAnalyzer::set_nzmask
set_nzmask(m, vn, mask) == MapPut(m, vn, BitAnd(mask, calc_mask(vn.size)))

\* `op.output.as_ref().map(|v| v.size).unwrap_or(d)`
OutputSizeOr(op, d) == IF op.output = None THEN d ELSE op.output[1].size

\* NZMaskAnalyzer::compute_op_nzmask, where it does not panic.
compute_op_nzmask(m, op) ==
    LET in0 == op.inputs[1]
        in1 == op.inputs[2]
    IN  CASE op.opcode = "Copy" -> Some(get_nzmask(m, in0))
          [] op.opcode = "IntAnd" -> Some(BitAnd(get_nzmask(m, in0), get_nzmask(m, in1)))
          [] op.opcode \in {"IntOr", "IntXor"} ->
                Some(BitOr(get_nzmask(m, in0), get_nzmask(m, in1)))
          [] op.opcode = "IntNegate" -> Some(get_nzmask(m, in0))
          [] op.opcode = "IntLeft" ->
                IF in1.space = "Const"
                THEN Some(BitAnd(UncheckedShl(get_nzmask(m, in0), in1.lo),
                                 calc_mask(OutputSizeOr(op, 8))))
                ELSE None
          [] op.opcode \in {"IntRight", "IntSRight"} ->
                IF in1.space = "Const"
                THEN Some(UncheckedShr(get_nzmask(m, in0), in1.lo))
                ELSE None
          [] op.opcode = "IntZExt" -> Some(get_nzmask(m, in0))
          [] op.opcode = "IntSExt" ->
                IF BitAnd(get_nzmask(m, in0), Shl(1, in0.size * 8 - 1)) # 0
                THEN Some(calc_mask(OutputSizeOr(op, 8)))
                ELSE Some(get_nzmask(m, in0))
          [] op.opcode = "SubPiece" ->
                IF Len(op.inputs) >= 2 /\ in1.space = "Const"
                THEN Some(BitAnd(Shr(get_nzmask(m, in0), in1.lo * 8),
                                 calc_mask(OutputSizeOr(op, 4))))
                ELSE None
          [] op.opcode \in {"IntAdd", "IntSub", "IntMult"} ->
                Some(calc_mask(OutputSizeOr(op, 8)))
          [] op.opcode \in {"IntEqual", "IntNotEqual", "IntLess", "IntLessEqual",
                            "IntSLess", "IntSLessEqual"} -> Some(1)
          [] op.opcode \in {"BoolNegate", "BoolAnd", "BoolOr", "BoolXor"} -> Some(1)
          [] OTHER -> None

(***************************************************************************)
(* Rewrite rules and driver (optimizer.rs)                                 *)
(***************************************************************************)

\* The result of OptimizationRule::apply: the op after the call and the
\* bool returned.
Applied(op) == [op |-> op, applied |-> TRUE]

Declined(op) == [op |-> op, applied |-> FALSE]

CopyOf(op, input) == unary("Copy", op.output[1], input, op.address)

\* RuleAndMask::apply
RuleAndMask(op, m) ==
    LET output_size == OutputSizeOr(op, 8)
        mask1 == get_nzmask(m, op.inputs[1])
        mask2 == get_nzmask(m, op.inputs[2])
        and_mask == BitAnd(mask1, mask2)
        full_mask == calc_mask(output_size)
    IN  IF Len(op.inputs) < 2 \/ output_size > 8 THEN Declined(op)
        ELSE IF and_mask = 0 THEN Applied(CopyOf(op, constant(0, output_size)))
        ELSE IF op.inputs[2].space = "Const" /\ and_mask = mask1
             THEN Applied(CopyOf(op, op.inputs[1]))
        ELSE IF /\ op.inputs[2].space = "Const"
                /\ BitAnd(op.inputs[2].lo, full_mask) = full_mask
             THEN Applied(CopyOf(op, op.inputs[1]))
        ELSE Declined(op)

\* RuleOrMask::apply
RuleOrMask(op, m) ==
    LET output_size == OutputSizeOr(op, 8)
        val == op.inputs[2].lo
        full_mask == calc_mask(output_size)
        mask == get_nzmask(m, op.inputs[1])
    IN  IF Len(op.inputs) < 2 \/ output_size > 8 THEN Declined(op)
        ELSE IF op.inputs[2].space # "Const" THEN Declined(op)
        ELSE IF BitAnd(val, full_mask) = full_mask
             THEN Applied(CopyOf(op, constant(full_mask, output_size)))
        ELSE IF BitOr(mask, val) = val THEN Applied(CopyOf(op, op.inputs[2]))
        ELSE Declined(op)

\* RuleOrConsume::apply
RuleOrConsume(op, m) ==
    IF Len(op.inputs) < 2 \/ op.output = None THEN Declined(op)
    ELSE IF op.output[1].size > 8 THEN Declined(op)
    ELSE IF get_nzmask(m, op.inputs[1]) = 0 THEN Applied(CopyOf(op, op.inputs[2]))
    ELSE IF get_nzmask(m, op.inputs[2]) = 0 THEN Applied(CopyOf(op, op.inputs[1]))
    ELSE Declined(op)

\* RuleTermOrder::apply
RuleTermOrder(op, m) ==
    IF Len(op.inputs) < 2 THEN Declined(op)
    ELSE IF op.inputs[1].space = "Const" /\ op.inputs[2].space # "Const"
         THEN Applied([op EXCEPT !.inputs[1] = op.inputs[2], !.inputs[2] = op.inputs[1]])
    ELSE Declined(op)

\* RuleEquality::apply
RuleEquality(op, m) ==
    IF Len(op.inputs) < 2 THEN Declined(op)
    ELSE IF op.inputs[1] = op.inputs[2]
         THEN Applied(CopyOf(op, constant(IF op.opcode = "IntEqual" THEN 1 ELSE 0, 1)))
    ELSE Declined(op)

\* `val1 << val2` and `val1 >> val2` panic ("attempt to shift with overflow")
\* in a build with overflow checks when the amount is 64 or more.
ShiftOverflows(opcode, val2) == opcode \in {"IntLeft", "IntRight"} /\ val2 >= 64

\* The `match op.opcode` of RuleConstantFold::apply, where it does not
\* panic.  mask is below 2^16, so the wrapping u64 result and its residue
\* mod 2^16 have the same `& mask`.
FoldResult(opcode, val1, val2, mask) ==
    CASE opcode = "IntAdd" -> BitAnd((val1 + val2) % 2^16, mask)
      [] opcode = "IntSub" -> BitAnd((val1 - val2) % 2^16, mask)
      [] opcode = "IntMult" -> BitAnd((val1 * val2) % 2^16, mask)
      [] opcode = "IntAnd" -> BitAnd(val1, val2)
      [] opcode = "IntOr" -> BitOr(val1, val2)
      [] opcode = "IntXor" -> BitXor(val1, val2)
      [] opcode = "IntLeft" -> BitAnd(UncheckedShl(val1, val2), mask)
      [] opcode = "IntRight" -> UncheckedShr(val1, val2)

\* RuleConstantFold::apply
RuleConstantFold(op, m) ==
    LET size == OutputSizeOr(op, 8)
    IN  IF Len(op.inputs) < 2 THEN Declined(op)
        ELSE IF op.inputs[1].space # "Const" \/ op.inputs[2].space # "Const"
             THEN Declined(op)
        ELSE Applied(CopyOf(op, constant(FoldResult(op.opcode, op.inputs[1].lo,
                                                    op.inputs[2].lo, calc_mask(size)),
                                         size)))

\* RuleLessOne::apply
RuleLessOne(op, m) ==
    IF Len(op.inputs) < 2 THEN Declined(op)
    ELSE IF op.inputs[2].space = "Const" /\ op.inputs[2].lo = 1
         THEN Applied(binary("IntEqual", op.output[1], op.inputs[1],
                             constant(0, op.inputs[1].size), op.address))
    ELSE Declined(op)

\* RuleZeroOp::apply
RuleZeroOp(op, m) ==
    LET is_zero_1 == op.inputs[2].space = "Const" /\ op.inputs[2].lo = 0
    IN  IF Len(op.inputs) < 2 THEN Declined(op)
        ELSE IF op.opcode \in {"IntAdd", "IntSub", "IntOr", "IntXor"} /\ is_zero_1
             THEN Applied(CopyOf(op, op.inputs[1]))
        ELSE IF op.opcode = "IntMult" /\ is_zero_1
             THEN Applied(CopyOf(op, constant(0, op.inputs[1].size)))
        ELSE Declined(op)

\* The rules of Optimizer::new, in order.
Rules ==
    <<"RuleTermOrder", "RuleConstantFold", "RuleZeroOp", "RuleAndMask",
      "RuleOrMask", "RuleOrConsume", "RuleEquality", "RuleLessOne",
      "RuleNegateIdentity", "RuleShiftBitops", "RuleAndOrLump", "RuleEarlyRemoval">>

\* OptimizationRule::target_opcodes ({} = any opcode)
target_opcodes(rule) ==
    CASE rule = "RuleTermOrder" ->
            {"IntEqual", "IntNotEqual", "IntAdd", "IntXor", "IntAnd", "IntOr",
             "IntMult", "BoolXor", "BoolAnd", "BoolOr"}
      [] rule = "RuleConstantFold" ->
            {"IntAdd", "IntSub", "IntMult", "IntAnd", "IntOr", "IntXor",
             "IntLeft", "IntRight"}
      [] rule = "RuleZeroOp" -> {"IntAdd", "IntSub", "IntMult", "IntOr", "IntXor"}
      [] rule = "RuleAndMask" -> {"IntAnd"}
      [] rule = "RuleOrMask" -> {"IntOr"}
      [] rule = "RuleOrConsume" -> {"IntOr", "IntXor"}
      [] rule = "RuleEquality" -> {"IntEqual", "IntNotEqual"}
      [] rule = "RuleLessOne" -> {"IntLess"}
      [] rule = "RuleNegateIdentity" -> {"IntNegate"}
      [] rule = "RuleShiftBitops" -> {"IntAnd"}
      [] rule = "RuleAndOrLump" -> {"IntAnd", "IntOr", "IntXor"}
      [] rule = "RuleEarlyRemoval" -> {}

\* OptimizationRule::apply; the last four rules always return false.
apply(rule, op, m) ==
    CASE rule = "RuleTermOrder" -> RuleTermOrder(op, m)
      [] rule = "RuleConstantFold" -> RuleConstantFold(op, m)
      [] rule = "RuleZeroOp" -> RuleZeroOp(op, m)
      [] rule = "RuleAndMask" -> RuleAndMask(op, m)
      [] rule = "RuleOrMask" -> RuleOrMask(op, m)
      [] rule = "RuleOrConsume" -> RuleOrConsume(op, m)
      [] rule = "RuleEquality" -> RuleEquality(op, m)
      [] rule = "RuleLessOne" -> RuleLessOne(op, m)
      [] OTHER -> Declined(op)

\* `stats.applications_per_rule.entry(name).and_modify(|c| *c += 1).or_insert(1)`
CountRule(per_rule, rule) ==
    MapPut(per_rule, rule, IF rule \in DOMAIN per_rule THEN per_rule[rule] + 1 ELSE 1)

RECURSIVE ApplyAll(_, _, _)
\* `for rule in &self.rules` of optimize, on one op;
\* st = [op, applications, per_rule].
ApplyAll(r, st, m) ==
    IF r > Len(Rules) THEN st
    ELSE LET targets == target_opcodes(Rules[r])
             res == apply(Rules[r], st.op, m)
         IN  IF targets # {} /\ st.op.opcode \notin targets
             THEN ApplyAll(r + 1, st, m)
             ELSE ApplyAll(r + 1,
                           [op |-> res.op,
                            applications |-> st.applications + (IF res.applied THEN 1 ELSE 0),
                            per_rule |-> IF res.applied THEN CountRule(st.per_rule, Rules[r])
                                         ELSE st.per_rule],
                           m)

\* The largest constant shift amount of the op lists.
MaxShift == 4

UnaryOpcodes == {"Copy", "IntNegate", "IntZExt", "IntSExt", "BoolNegate"}

BinaryOpcodes ==
    {"IntAnd", "IntOr", "IntXor", "IntAdd", "IntSub", "IntMult", "IntLeft",
     "IntRight", "IntSRight", "IntEqual", "IntNotEqual", "IntLess", "SubPiece",
     "BoolAnd"}

\* Varnode::unique
unique(offset, size) == Varnode("Unique", offset, size)

\* The ops the lifter can emit: operand sizes agree with the opcode, and a
\* constant shift amount is at most MaxShift.
WellFormedOp(op) ==
    LET out == op.output[1]
        in0 == op.inputs[1]
        in1 == op.inputs[2]
    IN  CASE op.opcode \in {"Copy", "IntNegate"} -> in0.size = out.size
          [] op.opcode \in {"IntZExt", "IntSExt"} -> in0.size < out.size
          [] op.opcode = "BoolNegate" -> in0.size = 1 /\ out.size = 1
          [] op.opcode \in {"IntAnd", "IntOr", "IntXor", "IntAdd", "IntSub", "IntMult"} ->
                in0.size = out.size /\ in1.size = out.size
          [] op.opcode \in {"IntLeft", "IntRight", "IntSRight"} ->
                /\ in0.size = out.size
                /\ in1.space = "Const" => in1.lo <= MaxShift
          [] op.opcode \in {"IntEqual", "IntNotEqual", "IntLess"} ->
                in0.size = in1.size /\ out.size = 1
          [] op.opcode = "BoolAnd" -> in0.size = 1 /\ in1.size = 1 /\ out.size = 1
          [] op.opcode = "SubPiece" ->
                in1.space = "Const" /\ in1.lo + out.size <= in0.size

\* The widest Varnode of the op lists, in bytes.
MaxVarnodeSize == 2

\* The well-formed ops writing the temporary `id`, of at most maxSize bytes,
\* from the given operands.
OpsOver(id, maxSize, operands) ==
    {op \in {unary(oc, unique(id, sz), a, 0) :
                oc \in UnaryOpcodes, sz \in 1..maxSize, a \in operands}
            \cup {binary(oc, unique(id, sz), a, b, 0) :
                oc \in BinaryOpcodes, sz \in 1..maxSize, a \in operands, b \in operands} :
        WellFormedOp(op)}

FirstOperands == {register(0, 1), register(8, 2), constant(15, 1), constant(1, 1)}

SecondOperands ==
    {register(0, 1)} \cup {constant(c, 1) : c \in {0, 1, 4, 15, 240, 255}}

\* The ops that can follow an op writing a temporary of the given size: they
\* read that temporary.
SecondOps(size, maxSize) ==
    {op \in OpsOver(2, maxSize, SecondOperands \cup {unique(1, size)}) :
        InSeq(unique(1, size), op.inputs)}

\* The op lists handed to optimize: in SSA form, every temporary written once
\* and before its uses; the second op of a two-op list reads the first one's
\* output.
OptimizerInputs(maxSize) ==
    {<<>>}
    \cup {<<op>> : op \in OpsOver(1, maxSize, FirstOperands \cup SecondOperands)}
    \cup UNION {{<<op1, op2>> :
                    op1 \in {op \in OpsOver(1, maxSize, FirstOperands) :
                                op.output[1].size = size},
                    op2 \in SecondOps(size, maxSize)} : size \in 1..maxSize}

InitOpt ==
    /\ cfg = NewCfg
    /\ BuildIdle
    /\ AnalysesIdle
    /\ DomIdle
    /\ SsaIdle
    /\ CacheIdle
    /\ opt_input \in OptimizerInputs(MaxVarnodeSize)
    /\ opt_ops = opt_input
    /\ masks = <<>>
    /\ nz_iteration = 0
    /\ nz_i = 1
    /\ nz_changed = FALSE
    /\ iteration = 0
    /\ opt_i = 1
    /\ opt_changed = FALSE
    /\ stats = NewStats
    /\ opt_pc = "analyze"

\* analyze_ops: one iteration of `for op in ops`.
AnalyzeOp ==
    /\ opt_pc = "analyze"
    /\ nz_i <= Len(opt_ops)
    /\ LET op == opt_ops[nz_i]
           new_mask == compute_op_nzmask(masks, op)
           updates == /\ op.output # None
                      /\ new_mask # None
                      /\ get_nzmask(masks, op.output[1]) # new_mask[1]
       IN  /\ masks' = IF updates THEN set_nzmask(masks, op.output[1], new_mask[1])
                       ELSE masks
           /\ nz_changed' = (nz_changed \/ updates)
    /\ nz_i' = nz_i + 1
    /\ UNCHANGED <<opt_input, opt_ops, nz_iteration, iteration, opt_i, opt_changed,
                   stats, opt_pc>>
    /\ UNCHANGED optOthers

\* analyze_ops: the end of one pass (at most 5); after the last one optimize
\* builds its context and starts its own loop.
AnalyzePassEnd ==
    /\ opt_pc = "analyze"
    /\ nz_i > Len(opt_ops)
    /\ IF ~nz_changed \/ nz_iteration = 4
       THEN /\ opt_pc' = "rules"
            /\ UNCHANGED <<nz_iteration, nz_i, nz_changed>>
       ELSE /\ nz_iteration' = nz_iteration + 1
            /\ nz_i' = 1
            /\ nz_changed' = FALSE
            /\ UNCHANGED opt_pc
    /\ UNCHANGED <<opt_input, opt_ops, masks, iteration, opt_i, opt_changed, stats>>
    /\ UNCHANGED optOthers

\* optimize: one iteration of `for op in ops.iter_mut()`, every rule in turn.
ApplyRules ==
    /\ opt_pc = "rules"
    /\ opt_i <= Len(opt_ops)
    /\ LET st == ApplyAll(1, [op |-> opt_ops[opt_i], applications |-> 0,
                              per_rule |-> stats.applications_per_rule], masks)
       IN  /\ opt_ops' = [opt_ops EXCEPT ![opt_i] = st.op]
           /\ opt_changed' = (opt_changed \/ st.applications > 0)
           /\ stats' = [stats EXCEPT !.total_applications = @ + st.applications,
                                     !.applications_per_rule = st.per_rule]
    /\ opt_i' = opt_i + 1
    /\ UNCHANGED <<opt_input, masks, nz_iteration, nz_i, nz_changed, iteration, opt_pc>>
    /\ UNCHANGED optOthers

\* optimize: the end of one pass (at most 10).
OptimizePassEnd ==
    /\ opt_pc = "rules"
    /\ opt_i > Len(opt_ops)
    /\ stats' = [stats EXCEPT !.iterations = iteration + 1]
    /\ IF ~opt_changed \/ iteration = 9
       THEN /\ opt_pc' = "done"
            /\ UNCHANGED <<iteration, opt_i, opt_changed>>
       ELSE /\ iteration' = iteration + 1
            /\ opt_i' = 1
            /\ opt_changed' = FALSE
            /\ UNCHANGED opt_pc
    /\ UNCHANGED <<opt_input, opt_ops, masks, nz_iteration, nz_i, nz_changed>>
    /\ UNCHANGED optOthers

NextOpt ==
    \/ AnalyzeOp
    \/ AnalyzePassEnd
    \/ ApplyRules
    \/ OptimizePassEnd

OptSpec == InitOpt /\ [][NextOpt]_vars

\* The largest constant operand of the ops handed to RuleConstantFold alone:
\* a u8, the type of the shift count of decode_shl and decode_shr.
MaxFoldConst == 255

\* The constant operands tried: the small ones, those around the widths 8,
\* 16, 32 and 64, and the largest.
FoldConsts(maxConst) ==
    {c \in {0, 1, 2, 3, 7, 8, 9, 15, 16, 31, 32, 63, 64, 65, 127, 128, 200} : c <= maxConst}
    \cup {maxConst}

FoldOpcodes ==
    {"IntAdd", "IntSub", "IntMult", "IntAnd", "IntOr", "IntXor", "IntLeft", "IntRight"}

\* One-op lists with two constant inputs, of one byte.
FoldInputs(maxConst) ==
    {<<binary(opcode, unique(1, 1), constant(val1, 1), constant(val2, 1), 0)>> :
        opcode \in FoldOpcodes, val1 \in FoldConsts(maxConst), val2 \in FoldConsts(maxConst)}

\* An op with two constant inputs about to be handed to RuleConstantFold.
InitFold ==
    /\ cfg = NewCfg
    /\ BuildIdle
    /\ AnalysesIdle
    /\ DomIdle
    /\ SsaIdle
    /\ CacheIdle
    /\ opt_input \in FoldInputs(MaxFoldConst)
    /\ opt_ops = opt_input
    /\ masks = <<>>
    /\ nz_iteration = 0
    /\ nz_i = 1
    /\ nz_changed = FALSE
    /\ iteration = 0
    /\ opt_i = 1
    /\ opt_changed = FALSE
    /\ stats = NewStats
    /\ opt_pc = "fold"

\* RuleConstantFold::apply returns.  In a build with overflow checks it
\* returns only when the shift does not overflow.
ConstantFold(overflow_checks) ==
    /\ opt_pc = "fold"
    /\ ~(overflow_checks /\ ShiftOverflows(opt_ops[1].opcode, opt_ops[1].inputs[2].lo))
    /\ LET res == RuleConstantFold(opt_ops[1], masks)
       IN  /\ opt_ops' = <<res.op>>
           /\ opt_changed' = res.applied
    /\ opt_pc' = "folded"
    /\ UNCHANGED <<opt_input, masks, nz_iteration, nz_i, nz_changed, iteration, opt_i, stats>>
    /\ UNCHANGED optOthers

\* RuleConstantFold::apply panics at the shift, in a build with overflow
\* checks; the op is as it was.
ConstantFoldPanics ==
    /\ opt_pc = "fold"
    /\ ShiftOverflows(opt_ops[1].opcode, opt_ops[1].inputs[2].lo)
    /\ opt_pc' = "panicked"
    /\ UNCHANGED <<opt_input, opt_ops, masks, nz_iteration, nz_i, nz_changed,
                   iteration, opt_i, opt_changed, stats>>
    /\ UNCHANGED optOthers

NextFold ==
    \/ \E overflow_checks \in BOOLEAN : ConstantFold(overflow_checks)
    \/ ConstantFoldPanics

FoldSpec == InitFold /\ [][NextFold]_vars

\* compute_op_nzmask: `mask << shift` and `mask >> shift` panic in a build
\* with overflow checks when the constant shift count is 64 or more.
MaskShiftOverflows(op) ==
    /\ op.opcode \in {"IntLeft", "IntRight", "IntSRight"}
    /\ op.inputs[2].space = "Const"
    /\ op.inputs[2].lo >= 64

\* The registers the shift instructions are decoded on.
ShiftedRegisters == {register(0, 1), register(8, 2)}

\* decode_shl, decode_shr, decode_sar: `reg = reg << count` with the u8 count
\* as a constant of one byte.
ShiftInputs(maxConst) ==
    {<<binary(opcode, reg, reg, constant(count, 1), 0)>> :
        opcode \in {"IntLeft", "IntRight", "IntSRight"},
        reg \in ShiftedRegisters, count \in FoldConsts(maxConst)}

\* optimize is handed a decoded shift instruction.
InitShiftOpt ==
    /\ cfg = NewCfg
    /\ BuildIdle
    /\ AnalysesIdle
    /\ DomIdle
    /\ SsaIdle
    /\ CacheIdle
    /\ opt_input \in ShiftInputs(MaxFoldConst)
    /\ opt_ops = opt_input
    /\ masks = <<>>
    /\ nz_iteration = 0
    /\ nz_i = 1
    /\ nz_changed = FALSE
    /\ iteration = 0
    /\ opt_i = 1
    /\ opt_changed = FALSE
    /\ stats = NewStats
    /\ opt_pc = "analyze"

\* analyze_ops panics in compute_op_nzmask, in a build with overflow checks;
\* the panic unwinds through optimize.
AnalyzeOpPanics ==
    /\ opt_pc = "analyze"
    /\ nz_i <= Len(opt_ops)
    /\ opt_ops[nz_i].output # None
    /\ MaskShiftOverflows(opt_ops[nz_i])
    /\ opt_pc' = "panicked"
    /\ UNCHANGED <<opt_input, opt_ops, masks, nz_iteration, nz_i, nz_changed,
                   iteration, opt_i, opt_changed, stats>>
    /\ UNCHANGED optOthers

NextShiftOpt ==
    \/ AnalyzeOp
    \/ AnalyzePassEnd
    \/ ApplyRules
    \/ OptimizePassEnd
    \/ AnalyzeOpPanics

ShiftOptSpec == InitShiftOpt /\ [][NextShiftOpt]_vars

(***************************************************************************)
(* The lifter's op lists (x86_64.rs, X86Decoder), optimized as             *)
(* decompile_function_uncached does: straight from the lifter              *)
(***************************************************************************)

\* X86Register discriminants.
RAX == 0
RCX == 8

zf_varnode == unique(6, 1)
sf_varnode == unique(7, 1)
of_varnode == unique(11, 1)
cf_varnode == unique(0, 1)

update_flags_arithmetic(res, address) ==
    <<binary("IntEqual", zf_varnode, res, constant(0, res.size), address),
      binary("IntSLess", sf_varnode, res, constant(0, res.size), address)>>

update_flags_logical(res, address) ==
    <<binary("IntEqual", zf_varnode, res, constant(0, res.size), address),
      binary("IntSLess", sf_varnode, res, constant(0, res.size), address),
      unary("Copy", cf_varnode, constant(0, 1), address),
      unary("Copy", of_varnode, constant(0, 1), address)>>

decode_mov(dest, src, size, address) ==
    <<unary("Copy", register(dest, size), register(src, size), address)>>

\* `imm as u64` of an immediate that is not negative.
decode_mov_imm(dest, imm, size, address) ==
    <<unary("Copy", register(dest, size), constant(imm, size), address)>>

decode_add(dest, src, size, address) ==
    <<binary("IntAdd", register(dest, size), register(dest, size),
             register(src, size), address)>>
    \o update_flags_arithmetic(register(dest, size), address)

decode_add_imm(dest, imm, size, address) ==
    <<binary("IntAdd", register(dest, size), register(dest, size),
             constant(imm, size), address)>>
    \o update_flags_arithmetic(register(dest, size), address)

decode_and_imm(dest, imm, size, address) ==
    <<binary("IntAnd", register(dest, size), register(dest, size),
             constant(imm, size), address)>>
    \o update_flags_logical(register(dest, size), address)

decode_or_imm(dest, imm, size, address) ==
    <<binary("IntOr", register(dest, size), register(dest, size),
             constant(imm, size), address)>>
    \o update_flags_logical(register(dest, size), address)

decode_xor(dest, src, size, address) ==
    <<binary("IntXor", register(dest, size), register(dest, size),
             register(src, size), address)>>
    \o update_flags_logical(register(dest, size), address)

decode_not(reg, size, address) ==
    <<unary("IntNegate", register(reg, size), register(reg, size), address)>>

\* Instructions of the functions lifted.
MaxInstructions == 2

LiftedRegisters == {RAX, RCX}

LiftedImmediates == {15, 240}

\* What the lifter gives for one instruction on byte registers.
LiftedInstructions(address) ==
    {decode_mov(d, s, 1, address) : d \in LiftedRegisters, s \in LiftedRegisters}
    \cup {decode_mov_imm(d, i, 1, address) : d \in LiftedRegisters, i \in LiftedImmediates}
    \cup {decode_add(d, s, 1, address) : d \in LiftedRegisters, s \in LiftedRegisters}
    \cup {decode_add_imm(d, i, 1, address) : d \in LiftedRegisters, i \in LiftedImmediates}
    \cup {decode_and_imm(d, i, 1, address) : d \in LiftedRegisters, i \in LiftedImmediates}
    \cup {decode_or_imm(d, i, 1, address) : d \in LiftedRegisters, i \in LiftedImmediates}
    \cup {decode_xor(d, s, 1, address) : d \in LiftedRegisters, s \in LiftedRegisters}
    \cup {decode_not(r, 1, address) : r \in LiftedRegisters}

RECURSIVE LifterInputs(_)
\* translate: the ops of up to n instructions, one after the other.
LifterInputs(n) ==
    IF n = 0 THEN {<<>>}
    ELSE LifterInputs(n - 1)
         \cup {ops \o instruction : ops \in {l \in LifterInputs(n - 1) : l # <<>> \/ n = 1},
                                     instruction \in LiftedInstructions(n - 1)}

InitLiftOpt ==
    /\ cfg = NewCfg
    /\ BuildIdle
    /\ AnalysesIdle
    /\ DomIdle
    /\ SsaIdle
    /\ CacheIdle
    /\ opt_input \in LifterInputs(MaxInstructions)
    /\ opt_ops = opt_input
    /\ masks = <<>>
    /\ nz_iteration = 0
    /\ nz_i = 1
    /\ nz_changed = FALSE
    /\ iteration = 0
    /\ opt_i = 1
    /\ opt_changed = FALSE
    /\ stats = NewStats
    /\ opt_pc = "analyze"

LiftOptSpec == InitLiftOpt /\ [][NextOpt]_vars

(***************************************************************************)
(* Claims about the non-zero masks and the rewrite rules                   *)
(***************************************************************************)

\* The values a Varnode of the given size takes in the executions examined.
ValuesOf(size) ==
    {0, 1, 2, 15, 16, 127, 128, 240, 255}
    \cup IF size >= 2 THEN {256, 32767, 32768, 65280, 65535} ELSE {}

\* P-code semantics of one op on input values a, b (each below 2^(8*size) of
\* its input), as a value below 2^(8 * output size).
Eval(op, a, b) ==
    LET bits == op.output[1].size * 8
        M == 2^bits
        inbits == op.inputs[1].size * 8
        bool(x) == IF x THEN 1 ELSE 0
    IN  CASE op.opcode = "Copy" -> a % M
          [] op.opcode = "IntZExt" -> a % M
          [] op.opcode = "IntSExt" ->
                IF a >= 2^(inbits - 1) THEN a + (M - 2^inbits) ELSE a
          [] op.opcode = "IntNegate" -> M - 1 - (a % M)
          [] op.opcode = "IntAnd" -> BitAnd(a, b) % M
          [] op.opcode = "IntOr" -> BitOr(a, b) % M
          [] op.opcode = "IntXor" -> BitXor(a, b) % M
          [] op.opcode = "IntAdd" -> (a + b) % M
          [] op.opcode = "IntSub" -> (a - b) % M
          [] op.opcode = "IntMult" ->
                (a * (b % 256) + ((a * (b \div 256)) % M) * 256) % M
          [] op.opcode = "IntLeft" -> IF b >= bits THEN 0 ELSE (a * 2^b) % M
          [] op.opcode = "IntRight" -> IF b >= bits THEN 0 ELSE a \div 2^b
          [] op.opcode = "IntSRight" ->
                IF a >= 2^(bits - 1)
                THEN IF b >= bits THEN M - 1 ELSE M - 1 - ((M - 1 - a) \div 2^b)
                ELSE IF b >= bits THEN 0 ELSE a \div 2^b
          [] op.opcode = "SubPiece" -> (a \div 2^(8 * b)) % M
          [] op.opcode = "IntEqual" -> bool(a = b)
          [] op.opcode = "IntNotEqual" -> bool(a # b)
          [] op.opcode = "IntLess" -> bool(a < b)
          [] op.opcode = "IntSLess" ->
                bool((a + 2^(inbits - 1)) % 2^inbits < (b + 2^(inbits - 1)) % 2^inbits)
          [] op.opcode = "BoolNegate" -> bool(a = 0)
          [] op.opcode = "BoolAnd" -> bool(a # 0 /\ b # 0)

\* The value an input holds: a constant its own value, anything else what
\* the environment says.
ValueIn(env, vn) ==
    IF vn.space = "Const" THEN vn.lo % 2^(vn.size * 8) ELSE env[vn]

EvalIn(env, op) ==
    Eval(op, ValueIn(env, op.inputs[1]),
         IF Len(op.inputs) >= 2 THEN ValueIn(env, op.inputs[2]) ELSE 0)

\* The non-constant inputs of an op.
Reads(op) == {op.inputs[k] : k \in {n \in 1..Len(op.inputs) : op.inputs[n].space # "Const"}}

\* The assignments of values to the inputs of op that lie within the masks m
\* holds for them.
WithinMasks(m, op) ==
    {env \in [Reads(op) -> ValuesOf(2)] :
        \A vn \in Reads(op) :
            /\ env[vn] \in ValuesOf(vn.size)
            /\ BitAnd(env[vn], get_nzmask(m, vn)) = env[vn]}

\* C7: when analyze_ops has just handled an op for which compute_op_nzmask
\* gives a mask, then for every assignment of input values whose set bits lie
\* within the inputs' masks, the set bits of the op's result are within the
\* mask the analyzer holds for the output.
C7_MaskCoversResult ==
    (opt_pc = "analyze" /\ nz_i > 1) =>
        LET op == opt_ops[nz_i - 1]
        IN  compute_op_nzmask(masks, op) # None =>
                \A env \in WithinMasks(masks, op) :
                    BitAnd(EvalIn(env, op), get_nzmask(masks, op.output[1]))
                        = EvalIn(env, op)

\* The Varnodes an op list reads before (or without) writing them.
FreeInputs(ops) ==
    {vn \in UNION {Reads(ops[i]) : i \in 1..Len(ops)} :
        \A i \in 1..Len(ops) : ops[i].output # Some(vn)}

RECURSIVE Execute(_, _, _)
\* The environment after executing ops[i..] from env.
Execute(ops, i, env) ==
    IF i > Len(ops) THEN env
    ELSE Execute(ops, i + 1, MapPut(env, ops[i].output[1], EvalIn(env, ops[i])))

\* The executions of the list handed to optimize: one per assignment of
\* values to its free inputs.
Executions ==
    {env \in [FreeInputs(opt_input) -> ValuesOf(2)] :
        \A vn \in FreeInputs(opt_input) : env[vn] \in ValuesOf(vn.size)}

\* C8: every op of the list being optimized has the output Varnode it had in
\* the input list, and in every execution writes to it the value the
\* original op wrote.
C8_RewritesPreserveValues ==
    \A i \in 1..Len(opt_ops) :
        opt_ops[i] # opt_input[i] =>
            /\ opt_ops[i].output = opt_input[i].output
            /\ \A env \in Executions :
                  Execute(opt_ops, 1, env)[opt_ops[i].output[1]]
                      = Execute(opt_input, 1, env)[opt_input[i].output[1]]

\* C19: RuleConstantFold, handed an add, sub, mul, and, or, xor, left-shift
\* or logical-right-shift op with two constant inputs, returns, and the op
\* is then a copy to the same output of the constant whose offset is the
\* value the op computes, which is below 2^(8 * output size); for every
\* shift amount.
C19_FoldIsResultModSize ==
    /\ opt_pc # "panicked"
    /\ opt_pc = "folded" =>
          opt_ops[1] = CopyOf(opt_input[1],
                              constant(EvalIn(<<>>, opt_input[1]),
                                       opt_input[1].output[1].size))

RECURSIVE SumOver(_, _)
\* The sum of the counts of the rules in S.
SumOver(per_rule, S) ==
    IF S = {} THEN 0
    ELSE LET rule == CHOOSE x \in S : TRUE
         IN  per_rule[rule] + SumOver(per_rule, S \ {rule})

\* What holds of the passes made so far and, once optimize has returned,
\* of the statistics it returned.
WithinCaps ==
    /\ nz_iteration \in 0..4
    /\ iteration \in 0..9
    /\ opt_pc = "done" =>
          /\ stats.iterations \in 1..10
          /\ stats.iterations = iteration + 1
          /\ SumOver(stats.applications_per_rule, DOMAIN stats.applications_per_rule)
                = stats.total_applications

\* C24: optimize returns on every op list: it does not abort, analyze_ops
\* makes at most 5 passes and optimize at most 10, the rewrite pass in which
\* no rule fires is the last, and the statistics returned hold the number of
\* passes made, between 1 and 10, and per-rule counts that add up to the
\* total.
C24_ReturnsWithinCaps ==
    [][/\ opt_pc' # "panicked"
       /\ WithinCaps'
       /\ (OptimizePassEnd /\ ~opt_changed) => opt_pc' = "done"
       /\ (OptimizePassEnd /\ opt_pc' = "done") => (~opt_changed \/ iteration = 9)]_vars

\* Everything an op list reads.
ReadIn(ops) == UNION {Reads(ops[i]) : i \in 1..Len(ops)}

\* The states of the registers, flags and temporaries the lifted list can be
\* started in: one per assignment of values to what it reads.
LiftedExecutions ==
    {env \in [ReadIn(opt_input) -> ValuesOf(2)] :
        \A vn \in DOMAIN env : env[vn] \in ValuesOf(vn.size)}

\* C26: when optimize has returned on a list in the lifter's shape, then
\* from every starting state the optimized list leaves in every register,
\* flag and temporary the value the original list leaves there.
C26_OptimizedListComputesTheSame ==
    opt_pc = "done" =>
        \A env \in LiftedExecutions :
            Execute(opt_ops, 1, env) = Execute(opt_input, 1, env)

\* C23: neither the NZ-mask analysis nor the rewrite loop of optimize ends
\* in a panic, whatever the constant count of a decoded shift instruction.
C23_OptimizeDoesNotAbort == opt_pc # "panicked"

(***************************************************************************)
(* Function-result cache (parallel_analyzer.rs, ParallelDecompiler)        *)
(*                                                                         *)
(* One binary file, unchanged, hence one fingerprint and one cache file.   *)
(***************************************************************************)

\* The function addresses decompiled are 1..MaxAddress.
MaxAddress == 2

\* The instruction budgets (max_instructions) passed are 1..MaxBudget.
MaxBudget == 2

\* Calls of decompile_function_cached each thread makes.
MaxCalls == 2

\* Instructions of the function found at every address of the file; each
\* lifts to one op.
FunctionLength == 2

Min(a, b) == IF a < b THEN a ELSE b

\* decompile_function_uncached: translate disassembles at most
\* max_instructions instructions, and the counts are those of the ops lifted.
decompile_function_uncached(function_address, max_instructions, now) ==
    [address |-> function_address,
     pcode_count |-> Min(max_instructions, FunctionLength),
     cached_at |-> now]

\* The cache file as serde_json::to_string_pretty writes it.
WholeFile(results) == [state |-> "whole", results |-> results]

\* The file while fs::write has truncated it and not yet written all of it,
\* or after two overlapping writes left mixed bytes: not parseable.
BrokenFile == [state |-> "broken", results |-> <<>>]

\* The entry sets a previous process can have left in the file.
EarlierResults ==
    {<<>>} \cup {MapPut(<<>>, a, decompile_function_uncached(a, b, 0)) :
                    a \in 1..MaxAddress, b \in 1..MaxBudget}

InitCache ==
    /\ cfg = NewCfg
    /\ BuildIdle
    /\ AnalysesIdle
    /\ DomIdle
    /\ SsaIdle
    /\ OptIdle
    /\ memory_cache = None
    /\ disk \in {[state |-> "absent", results |-> <<>>], BrokenFile}
                \cup {WholeFile(r) : r \in EarlierResults \ {<<>>}}
    /\ torn = FALSE
    /\ clock = 1
    /\ calls_left = [t \in Threads |-> MaxCalls]
    /\ cpc = [t \in Threads |-> "idle"]
    /\ call = [t \in Threads |-> None]
    /\ loaded = [t \in Threads |-> None]
    /\ result = [t \in Threads |-> None]
    /\ ret = [t \in Threads |-> None]

\* What decompile_function_cached returns: Ok(result), from the cache or
\* freshly computed, or the error `?` passed up.
Ok(value, from_cache) == [ok |-> TRUE, value |-> Some(value), from_cache |-> from_cache]
Err == [ok |-> FALSE, value |-> None, from_cache |-> FALSE]

\* Where decompile_function_cached continues after a load_cache.
AfterLoad(pc) == IF pc \in {"load1", "disk1", "promote1"} THEN "lookup" ELSE "save"

\* decompile_function_cached is called; compute_file_hash gives the
\* fingerprint of the file.
Call(t) ==
    /\ cpc[t] = "idle"
    /\ calls_left[t] > 0
    /\ \E function_address \in 1..MaxAddress, max_instructions \in 1..MaxBudget :
          call' = [call EXCEPT ![t] = Some([function_address |-> function_address,
                                            max_instructions |-> max_instructions])]
    /\ calls_left' = [calls_left EXCEPT ![t] = @ - 1]
    /\ cpc' = [cpc EXCEPT ![t] = "load1"]
    /\ ret' = [ret EXCEPT ![t] = None]
    /\ UNCHANGED <<memory_cache, disk, torn, clock, loaded, result>>
    /\ UNCHANGED cacheOthers

\* load_cache: the memory tier, under the lock.
LoadMemory(t) ==
    /\ cpc[t] \in {"load1", "load2"}
    /\ IF memory_cache # None
       THEN /\ loaded' = [loaded EXCEPT ![t] = memory_cache]
            /\ cpc' = [cpc EXCEPT ![t] = AfterLoad(cpc[t])]
       ELSE /\ cpc' = [cpc EXCEPT ![t] = IF cpc[t] = "load1" THEN "disk1" ELSE "disk2"]
            /\ UNCHANGED loaded
    /\ UNCHANGED <<memory_cache, disk, torn, clock, calls_left, call, result, ret>>
    /\ UNCHANGED cacheOthers

\* A load_cache that hands a file it cannot parse to its caller as an error.
ReadDiskOrRaise(t) ==
    /\ cpc[t] \in {"disk1", "disk2"}
    /\ IF disk.state = "whole"
       THEN /\ loaded' = [loaded EXCEPT ![t] = Some(disk.results)]
            /\ cpc' = [cpc EXCEPT ![t] = IF cpc[t] = "disk1" THEN "promote1" ELSE "promote2"]
            /\ UNCHANGED ret
       ELSE /\ ret' = [ret EXCEPT ![t] = Some(Err)]
            /\ cpc' = [cpc EXCEPT ![t] = "idle"]
            /\ UNCHANGED loaded
    /\ UNCHANGED <<memory_cache, disk, torn, clock, calls_left, call, result>>
    /\ UNCHANGED cacheOthers

\* load_cache: read_to_string and serde_json::from_str.
ReadDisk(t) ==
    /\ cpc[t] \in {"disk1", "disk2"}
    /\ IF disk.state = "whole"
       THEN /\ loaded' = [loaded EXCEPT ![t] = Some(disk.results)]
            /\ cpc' = [cpc EXCEPT ![t] = IF cpc[t] = "disk1" THEN "promote1" ELSE "promote2"]
       ELSE /\ loaded' = [loaded EXCEPT ![t] = None]
            /\ cpc' = [cpc EXCEPT ![t] = AfterLoad(cpc[t])]
    /\ UNCHANGED <<memory_cache, disk, torn, clock, calls_left, call, result, ret>>
    /\ UNCHANGED cacheOthers

\* load_cache: the entry set read from disk is stored in the memory tier.
Promote(t) ==
    /\ cpc[t] \in {"promote1", "promote2"}
    /\ memory_cache' = loaded[t]
    /\ cpc' = [cpc EXCEPT ![t] = AfterLoad(cpc[t])]
    /\ UNCHANGED <<disk, torn, clock, calls_left, call, loaded, result, ret>>
    /\ UNCHANGED cacheOthers

\* `cache.results.get(&function_address)`: a hit returns the stored entry.
Lookup(t) ==
    /\ cpc[t] = "lookup"
    /\ LET function_address == call[t][1].function_address
           hit == loaded[t] # None /\ function_address \in DOMAIN loaded[t][1]
       IN  IF hit
           THEN /\ ret' = [ret EXCEPT ![t] = Some(Ok(loaded[t][1][function_address], TRUE))]
                /\ cpc' = [cpc EXCEPT ![t] = "idle"]
           ELSE /\ cpc' = [cpc EXCEPT ![t] = "compute"]
                /\ UNCHANGED ret
    /\ UNCHANGED <<memory_cache, disk, torn, clock, calls_left, call, loaded, result>>
    /\ UNCHANGED cacheOthers

\* The uncached run; the clock has moved on when the next one reads it.
Compute(t) ==
    /\ cpc[t] = "compute"
    /\ result' = [result EXCEPT ![t] =
                     Some(decompile_function_uncached(call[t][1].function_address,
                                                      call[t][1].max_instructions, clock))]
    /\ clock' = clock + 1
    /\ cpc' = [cpc EXCEPT ![t] = "load2"]
    /\ UNCHANGED <<memory_cache, disk, torn, calls_left, call, loaded, ret>>
    /\ UNCHANGED cacheOthers

\* An entry set that holds the new result and nothing else.
InsertedAlone(results, function_address, res) == MapPut(<<>>, function_address, res)

\* `cache.results.insert(function_address, result.clone())`
Inserted(results, function_address, res) == MapPut(results, function_address, res)

\* `cache.results.insert` into what the second load_cache returned (or a new
\* entry set), then save_cache stores the entry set in the memory tier under
\* the lock.
SaveMemory(t) ==
    /\ cpc[t] = "save"
    /\ LET results == IF loaded[t] = None THEN <<>> ELSE loaded[t][1]
           cache == Inserted(results, call[t][1].function_address, result[t][1])
       IN  /\ memory_cache' = Some(cache)
           /\ loaded' = [loaded EXCEPT ![t] = Some(cache)]
    /\ cpc' = [cpc EXCEPT ![t] = "write"]
    /\ UNCHANGED <<disk, torn, clock, calls_left, call, result, ret>>
    /\ UNCHANGED cacheOthers

\* save_cache: fs::write opens the file, truncating it; no lock is held.
WriteBegin(t) ==
    /\ cpc[t] = "write"
    /\ disk' = BrokenFile
    /\ torn' = (torn \/ \E u \in Threads : cpc[u] = "writing")
    /\ cpc' = [cpc EXCEPT ![t] = "writing"]
    /\ UNCHANGED <<memory_cache, clock, calls_left, call, loaded, result, ret>>
    /\ UNCHANGED cacheOthers

\* save_cache: fs::write has written its last byte; the call returns the fresh
\* result.  After overlapping writes the bytes in the file are those of the
\* last writer or a mixture of both.
WriteEnd(t) ==
    /\ cpc[t] = "writing"
    /\ IF \E u \in Threads \ {t} : cpc[u] = "writing"
       THEN /\ disk' = BrokenFile
            /\ UNCHANGED torn
       ELSE /\ disk' \in {WholeFile(loaded[t][1])} \cup (IF torn THEN {BrokenFile} ELSE {})
            /\ torn' = FALSE
    /\ ret' = [ret EXCEPT ![t] = Some(Ok(result[t][1], FALSE))]
    /\ cpc' = [cpc EXCEPT ![t] = "idle"]
    /\ UNCHANGED <<memory_cache, clock, calls_left, call, loaded, result>>
    /\ UNCHANGED cacheOthers

\* save_cache: fs::write fails, at the open (the file is left as it was) or
\* at a write after the truncation (the file is left incomplete); `?` returns
\* the error from save_cache and again from decompile_function_cached.
WriteFail(t) ==
    /\ cpc[t] \in {"write", "writing"}
    /\ torn' = (torn /\ \E u \in Threads \ {t} : cpc[u] = "writing")
    /\ ret' = [ret EXCEPT ![t] = Some(Err)]
    /\ cpc' = [cpc EXCEPT ![t] = "idle"]
    /\ UNCHANGED <<memory_cache, disk, clock, calls_left, call, loaded, result>>
    /\ UNCHANGED cacheOthers

NextCache ==
    \/ \E t \in Threads : Call(t)
    \/ \E t \in Threads : LoadMemory(t)
    \/ \E t \in Threads : ReadDisk(t)
    \/ \E t \in Threads : Promote(t)
    \/ \E t \in Threads : Lookup(t)
    \/ \E t \in Threads : Compute(t)
    \/ \E t \in Threads : SaveMemory(t)
    \/ \E t \in Threads : WriteBegin(t)
    \/ \E t \in Threads : WriteEnd(t)
    \/ \E t \in Threads : WriteFail(t)

CacheSpec == InitCache /\ [][NextCache]_vars

\* Calls of decompile_function_cached made one after the other.
MaxSeqCalls == 3

\* One thread makes all the calls.
InitSeqCache ==
    /\ cfg = NewCfg
    /\ BuildIdle
    /\ AnalysesIdle
    /\ DomIdle
    /\ SsaIdle
    /\ OptIdle
    /\ memory_cache = None
    /\ disk \in {[state |-> "absent", results |-> <<>>], BrokenFile}
                \cup {WholeFile(r) : r \in EarlierResults \ {<<>>}}
    /\ torn = FALSE
    /\ clock = 1
    /\ calls_left = [t \in Threads |-> IF t = 1 THEN MaxSeqCalls ELSE 0]
    /\ cpc = [t \in Threads |-> "idle"]
    /\ call = [t \in Threads |-> None]
    /\ loaded = [t \in Threads |-> None]
    /\ result = [t \in Threads |-> None]
    /\ ret = [t \in Threads |-> None]

SeqCacheSpec == InitSeqCache /\ [][NextCache]_vars

(***************************************************************************)
(* Claims about the cache                                                  *)
(***************************************************************************)

\* The counts of a result (not the time it was stored).
Counts(r) == [address |-> r.address, pcode_count |-> r.pcode_count]

\* C9: a call answered from the cache returns the counts a fresh uncached run
\* with the call's own function address and instruction budget produces.
C9_HitEqualsFreshRun ==
    \A t \in Threads :
        (ret[t] # None /\ ret[t][1].from_cache) =>
            Counts(ret[t][1].value[1])
                = Counts(decompile_function_uncached(call[t][1].function_address,
                                                     call[t][1].max_instructions, clock))

\* C10: at most one thread at a time is between the start and the completion
\* of the write of the fingerprint's file.
C10_OneWriterAtATime ==
    Cardinality({t \in Threads : cpc[t] = "writing"}) <= 1

\* C11: at every step of a save_cache the cache file holds either the
\* complete contents it had before the save or the complete new entry set,
\* so that is what a reader of the file finds at any point of the save.
C11_FileWholeDuringSave ==
    [][\A t \in Threads :
          (WriteBegin(t) \/ WriteEnd(t)) =>
              disk' \in {disk, WholeFile(loaded[t][1])}]_vars

\* C12: a call whose write of the cache file failed hands its caller the
\* result it has just computed.
C12_FailedWriteStillDelivers ==
    \A t \in Threads :
        (ret[t] # None /\ ~ret[t][1].ok) => ret[t][1].value = result[t]

\* The call of thread t for function_address has returned an entry.
Returned(t, function_address) ==
    /\ ret[t] # None
    /\ ret[t][1].ok
    /\ call[t][1].function_address = function_address

\* C20: when one thread makes all the calls, once a call for an address has
\* returned an entry, every call for that address that returns afterwards
\* returns an entry with the same cached_at, whatever other addresses were
\* decompiled in between.
C20_LaterCallsReturnStoredEntry ==
    \A function_address \in 1..MaxAddress : \A cached_at \in 0..MaxSeqCalls :
        [](Returned(1, function_address) /\ ret[1][1].value[1].cached_at = cached_at
           => [](Returned(1, function_address)
                 => ret[1][1].value[1].cached_at = cached_at))

\* The last of the calls has returned, from the cache, an entry computed by
\* an earlier call, and another address was decompiled after that.
C20_Witness ==
    /\ calls_left[1] = 0
    /\ Returned(1, call[1][1].function_address)
    /\ ret[1][1].from_cache
    /\ ret[1][1].value[1].cached_at >= 1
    /\ memory_cache # None
    /\ \E other \in DOMAIN memory_cache[1] :
          /\ other # call[1][1].function_address
          /\ memory_cache[1][other].cached_at > ret[1][1].value[1].cached_at

\* C21: when one thread makes the calls, a load_cache that finds no entry
\* set in memory and a file that does not parse returns None and the call
\* goes on; the call then runs the uncached decompilation; and when its
\* save returns, the file is whole and holds the new result, so that a
\* load_cache reading it gets the entry.
C21_UnreadableFileIsMissAndReplaced ==
    [][/\ (ReadDisk(1) /\ disk.state # "whole") =>
              (loaded'[1] = None /\ ret'[1] = None /\ cpc'[1] \in {"lookup", "save"})
       /\ (Lookup(1) /\ loaded[1] = None) => cpc'[1] = "compute"
       /\ WriteEnd(1) =>
              /\ disk'.state = "whole"
              /\ call[1][1].function_address \in DOMAIN disk'.results
              /\ disk'.results[call[1][1].function_address] = ret'[1][1].value[1]
              /\ ret'[1][1].value = result[1]]_vars

\* load_cache has just reported a miss on a file that does not parse, with
\* nothing in memory.
C21_Witness ==
    /\ cpc[1] = "lookup"
    /\ disk = BrokenFile
    /\ memory_cache = None
    /\ loaded[1] = None
    /\ ret[1] = None

\* Every thread has made one call, the calls were for different addresses,
\* and all of them have returned an entry.
AllReturnedDistinct ==
    /\ \A t \in Threads :
          /\ calls_left[t] = MaxCalls - 1
          /\ cpc[t] = "idle"
          /\ ret[t] # None
          /\ ret[t][1].ok
    /\ \A t, u \in Threads :
          t # u => call[t][1].function_address # call[u][1].function_address

\* C25: when the calls of the threads, made for different addresses of the
\* binary, have all returned an entry, the entry set in memory holds every
\* one of the addresses and the file holds that same entry set.
C25_AllAddressesStored ==
    AllReturnedDistinct =>
        /\ memory_cache # None
        /\ \A t \in Threads : call[t][1].function_address \in DOMAIN memory_cache[1]
        /\ disk = WholeFile(memory_cache[1])

(***************************************************************************)
(* Control-structure recovery (control_flow.rs, ControlFlowAnalyzer)       *)
(***************************************************************************)

\* Number of blocks of the CFGs given to ControlFlowAnalyzer::analyze.
CfBlocks == 4

\* The successor lists of a block: none, one, or the two targets of a
\* two-way branch (the first is the `then` target).
SuccLists(n) ==
    {<<>>} \cup {<<a>> : a \in BlockIds(n)}
           \cup {s \in BlockIds(n) \X BlockIds(n) : s[1] # s[2]}

\* The CFGs built by hand as in test_if_structure and test_loop_detection:
\* a block with two successors ends in a CBranch, the others have no ops; the
\* predecessor lists mirror the successor lists, in ascending or in
\* descending order of block id.
AnalyzedCfg(n, succ, descending) ==
    [blocks |-> [id \in BlockIds(n) |->
        [id |-> id, start_address |-> id, end_address |-> id,
         ops |-> IF Len(succ[id]) = 2 THEN <<no_output("CBranch", <<>>, id)>> ELSE <<>>,
         successors |-> succ[id],
         predecessors |->
            LET preds == SortedSeq({u \in BlockIds(n) : InSeq(id, succ[u])})
            IN  IF descending THEN Reverse(preds) ELSE preds]],
     entry_block |-> 0,
     next_block_id |-> 0]

\* ControlStructure
BasicBlockStructure(block_id) == [kind |-> "BasicBlock", block |-> block_id]

Sequence(items) == [kind |-> "Sequence", items |-> items]

IfThenElse(condition_block, then_branch, else_branch) ==
    [kind |-> "IfThenElse", condition_block |-> condition_block,
     then_branch |-> then_branch, else_branch |-> else_branch]

IfThen(condition_block, then_branch) ==
    [kind |-> "IfThen", condition_block |-> condition_block, then_branch |-> then_branch]

While(condition_block, body) ==
    [kind |-> "While", condition_block |-> condition_block, body |-> body]

DoWhile(body, condition_block) ==
    [kind |-> "DoWhile", body |-> body, condition_block |-> condition_block]

InfiniteLoop(body) == [kind |-> "InfiniteLoop", body |-> body]

Switch(condition_block, cases) ==
    [kind |-> "Switch", condition_block |-> condition_block, cases |-> cases]

\* LoopInfo
LoopInfo(header, body, tail, loop_type) ==
    [header |-> header, body |-> body, back_edges |-> <<<<tail, header>>>>,
     loop_type |-> loop_type]

RECURSIVE FirstProcessed(_, _, _)
\* compute_dominators, `for &pred in &block.predecessors`: the first
\* predecessor that has a dominator or is the entry.
FirstProcessed(preds, i, im) ==
    IF i > Len(preds) THEN None
    ELSE IF im[preds[i]] # None \/ preds[i] = cfg.entry_block THEN Some(preds[i])
    ELSE FirstProcessed(preds, i + 1, im)

RECURSIVE DominatorsPass(_, _, _)
\* compute_dominators, `for &block_id in &rpo`: the idom map after the blocks
\* order[i..] have been handled.
DominatorsPass(order, i, im) ==
    IF i > Len(order) THEN im
    ELSE LET block_id == order[i]
         IN  IF block_id = cfg.entry_block \/ Predecessors(block_id) = <<>>
             THEN DominatorsPass(order, i + 1, im)
             ELSE DominatorsPass(order, i + 1,
                      [im EXCEPT ![block_id] = FirstProcessed(Predecessors(block_id), 1, im)])

\* A loop that cannot be left: its exit block and the block it is at.
Hang(exit, current) == Some([exit |-> exit, current |-> current])

RECURSIVE DominatesLoop(_, _, _)
\* dominates, the `while let Some(&dom) = self.dominators.get(&current)` loop:
\* Some(answer), or None when the loop comes back to a block it has been at
\* (`current` is its only state, so it never ends).
DominatesLoop(dominator, current, seen) ==
    IF current \notin DOMAIN dominators THEN Some(FALSE)
    ELSE LET dom == dominators[current]
         IN  IF dom = dominator THEN Some(TRUE)
             ELSE IF dom = current THEN Some(FALSE)
             ELSE IF dom \in seen THEN None
             ELSE DominatesLoop(dominator, dom, seen \cup {dom})

\* ControlFlowAnalyzer::dominates
analyzer_dominates(dominator, block) ==
    IF dominator = block THEN Some(TRUE) ELSE DominatesLoop(dominator, block, {block})

RECURSIVE LoopBodyPreds(_, _, _, _, _)
\* find_loop_body, `for &pred in &block.predecessors`.
LoopBodyPreds(header, preds, i, body, worklist) ==
    IF i > Len(preds) THEN [hang |-> None, body |-> body, worklist |-> worklist]
    ELSE IF preds[i] \in body THEN LoopBodyPreds(header, preds, i + 1, body, worklist)
    ELSE LET d == analyzer_dominates(header, preds[i])
         IN  IF d = None
             THEN [hang |-> Hang(Some(header), preds[i]), body |-> body, worklist |-> worklist]
             ELSE IF d[1]
             THEN LoopBodyPreds(header, preds, i + 1, body \cup {preds[i]},
                                Append(worklist, preds[i]))
             ELSE LoopBodyPreds(header, preds, i + 1, body, worklist)

RECURSIVE LoopBodyWork(_, _, _)
\* find_loop_body, `while let Some(block_id) = worklist.pop_front()`.
LoopBodyWork(header, worklist, body) ==
    IF worklist = <<>> THEN [hang |-> None, body |-> body, worklist |-> worklist]
    ELSE LET r == LoopBodyPreds(header, Predecessors(Head(worklist)), 1, body, Tail(worklist))
         IN  IF r.hang # None THEN r ELSE LoopBodyWork(header, r.worklist, r.body)

\* ControlFlowAnalyzer::find_loop_body
find_loop_body(header, tail) ==
    IF tail = header THEN [hang |-> None, body |-> {header}, worklist |-> <<>>]
    ELSE LoopBodyWork(header, <<tail>>, {header, tail})

\* ControlFlowAnalyzer::determine_loop_type
determine_loop_type(header, body) ==
    IF header \in Blocks /\ cfg.blocks[header].ops # <<>>
    THEN CASE Last(cfg.blocks[header].ops).opcode = "CBranch" -> "While"
           [] Last(cfg.blocks[header].ops).opcode = "Branch" -> "Infinite"
           [] OTHER -> "DoWhile"
    ELSE "While"

\* The (block, successor) pairs detect_loops tests.
Edges == {e \in Blocks \X Blocks : InSeq(e[2], Successors(e[1]))}

RECURSIVE ReachedFrom(_)
\* find_merge_point, first loop: everything reachable from the blocks of S.
ReachedFrom(S) ==
    LET next == S \cup {v \in Blocks : \E u \in S \cap Blocks : InSeq(v, Successors(u))}
    IN  IF next = S THEN S ELSE ReachedFrom(next)

RECURSIVE MergeSearch(_, _, _)
\* find_merge_point, second loop: breadth first from branch2, the first block
\* taken from the queue that branch1 reaches.
MergeSearch(queue, visited2, visited1) ==
    IF queue = <<>> THEN None
    ELSE LET block_id == Head(queue)
         IN  IF block_id \in visited2 THEN MergeSearch(Tail(queue), visited2, visited1)
             ELSE IF block_id \in visited1 THEN Some(block_id)
             ELSE MergeSearch(Tail(queue) \o (IF block_id \in Blocks
                                              THEN Successors(block_id) ELSE <<>>),
                              visited2 \cup {block_id}, visited1)

\* ControlFlowAnalyzer::find_merge_point
find_merge_point(branch1, branch2) ==
    MergeSearch(<<branch2>>, {}, ReachedFrom({branch1}))

\* Position of x in the sequence s.
IndexOf(x, s) == CHOOSE i \in 1..Len(s) : s[i] = x

\* ControlFlowAnalyzer::find_loop_by_header: the first loop pushed for the
\* header.  detect_loops pushes the loops in the iteration order of
\* cfg.blocks, here `order`.
find_loop_by_header(header, order) ==
    LET found == {l \in loops : l.header = header}
    IN  IF found = {} THEN None
        ELSE Some(CHOOSE l \in found :
                     \A k \in found :
                        IndexOf(l.back_edges[1][1], order) <= IndexOf(k.back_edges[1][1], order))

\* What a build_* function hands back: the structure, the visited set, and
\* the loop it cannot leave if there is one.
Built(node, v) == [node |-> node, visited |-> v, hang |-> None]

\* The tail of build_region: the structure made of `sequence`.
RegionOf(start, sequence) ==
    IF sequence = <<>> THEN BasicBlockStructure(start)
    ELSE IF Len(sequence) = 1 THEN sequence[1]
    ELSE Sequence(sequence)

RECURSIVE build_control_structure(_, _, _)
RECURSIVE build_if_structure(_, _, _, _)
RECURSIVE SwitchCases(_, _, _, _, _)
RECURSIVE LoopBodies(_, _, _, _, _)
RECURSIVE RegionLoop(_, _, _, _, _, _, _)

\* build_region, the `loop`: `seen` holds the blocks `current` has been.
RegionLoop(start, end, current, sequence, seen, v, order) ==
    IF Some(current) = end THEN Built(RegionOf(start, sequence), v)
    ELSE LET pushed == Append(sequence, BasicBlockStructure(current))
         IN  IF current \notin Blocks \/ Successors(current) = <<>>
             THEN Built(RegionOf(start, pushed), v)
             ELSE IF Len(Successors(current)) = 1
             THEN IF Successors(current)[1] \in seen \cup {current}
                  THEN [node |-> None, visited |-> v, hang |-> Hang(end, current)]
                  ELSE RegionLoop(start, end, Successors(current)[1], pushed,
                                  seen \cup {current}, v, order)
             ELSE LET branch_struct == build_control_structure(current, v, order)
                  IN  IF branch_struct.hang # None THEN branch_struct
                      ELSE Built(RegionOf(start, Append(pushed, branch_struct.node)),
                                 branch_struct.visited)

\* ControlFlowAnalyzer::build_region
build_region(start, end, v, order) ==
    IF Some(start) = end THEN Built(BasicBlockStructure(start), v)
    ELSE RegionLoop(start, end, start, <<>>, {}, v, order)

\* ControlFlowAnalyzer::build_if_structure
build_if_structure(condition_block, successors, v, order) ==
    IF Len(successors) # 2 THEN Built(BasicBlockStructure(condition_block), v)
    ELSE LET then_block == successors[1]
             else_block == successors[2]
             merge_point == find_merge_point(then_block, else_block)
             then_branch == build_region(then_block, merge_point, v, order)
         IN  IF then_branch.hang # None THEN then_branch
             ELSE IF else_block = (IF merge_point = None THEN else_block ELSE merge_point[1])
             THEN Built(IfThen(condition_block, then_branch.node), then_branch.visited)
             ELSE LET else_branch == build_region(else_block, merge_point,
                                                  then_branch.visited, order)
                  IN  IF else_branch.hang # None THEN else_branch
                      ELSE Built(IfThenElse(condition_block, then_branch.node,
                                            Some(else_branch.node)),
                                 else_branch.visited)

\* build_switch_structure, `for (i, &succ) in successors.iter().enumerate()`.
SwitchCases(successors, i, cases, v, order) ==
    IF i > Len(successors) THEN Built(cases, v)
    ELSE LET case_value == IF i = Len(successors) THEN None ELSE Some(i - 1)
             case_struct == build_control_structure(successors[i], v, order)
         IN  IF case_struct.hang # None THEN case_struct
             ELSE SwitchCases(successors, i + 1,
                              Append(cases, <<case_value, case_struct.node>>),
                              case_struct.visited, order)

\* build_loop_structure, `for &block_id in &body_blocks`.
LoopBodies(body_blocks, i, body_structures, v, order) ==
    IF i > Len(body_blocks) THEN Built(body_structures, v)
    ELSE IF body_blocks[i] \in v
    THEN LoopBodies(body_blocks, i + 1, body_structures, v, order)
    ELSE LET struct_node == build_control_structure(body_blocks[i], v, order)
         IN  IF struct_node.hang # None THEN struct_node
             ELSE LoopBodies(body_blocks, i + 1, Append(body_structures, struct_node.node),
                             struct_node.visited, order)

\* ControlFlowAnalyzer::build_loop_structure; the HashSet `body` is iterated
\* in the order `order` gives its blocks.
build_loop_structure(loop_info, v, order) ==
    LET header == loop_info.header
        body_blocks == SelectSeq(order, LAMBDA b : b \in loop_info.body /\ b # header)
        built == LoopBodies(body_blocks, 1, <<>>, v, order)
        body_structures == built.node
        body == IF body_structures = <<>> THEN BasicBlockStructure(header)
                ELSE IF Len(body_structures) = 1 THEN body_structures[1]
                ELSE Sequence(body_structures)
    IN  IF built.hang # None THEN built
        ELSE Built(CASE loop_info.loop_type = "While" -> While(header, body)
                     [] loop_info.loop_type = "DoWhile" -> DoWhile(body, header)
                     [] loop_info.loop_type = "Infinite" -> InfiniteLoop(body),
                   built.visited)

\* ControlFlowAnalyzer::build_control_structure, with `visited` passed in
\* and handed back.
build_control_structure(block_id, v, order) ==
    IF block_id \in v THEN Built(BasicBlockStructure(block_id), v)
    ELSE LET entered == v \cup {block_id}
             loop_info == find_loop_by_header(block_id, order)
         IN  IF loop_info # None THEN build_loop_structure(loop_info[1], entered, order)
             ELSE IF block_id \notin Blocks THEN Built(BasicBlockStructure(block_id), entered)
             ELSE CASE Len(Successors(block_id)) = 0 ->
                          Built(BasicBlockStructure(block_id), entered)
                    [] Len(Successors(block_id)) = 1 ->
                          LET next_struct ==
                                  build_control_structure(Successors(block_id)[1], entered, order)
                          IN  IF next_struct.hang # None THEN next_struct
                              ELSE Built(Sequence(<<BasicBlockStructure(block_id),
                                                    next_struct.node>>),
                                         next_struct.visited)
                    [] Len(Successors(block_id)) = 2 ->
                          build_if_structure(block_id, Successors(block_id), entered, order)
                    [] OTHER ->
                          LET cases == SwitchCases(Successors(block_id), 1, <<>>, entered, order)
                          IN  IF cases.hang # None THEN cases
                              ELSE Built(Switch(block_id, cases.node), cases.visited)

\* Two of the orders in which a hashed collection of the blocks S can be
\* iterated.
HashOrders(S) == {SortedSeq(S), Reverse(SortedSeq(S))}

\* analyze is called on a CFG of n blocks, all reachable from the entry; the
\* last block is the function's return block and has no successors.
InitCfaOn(n) ==
    /\ \E succ \in [BlockIds(n) -> SuccLists(n)] : \E descending \in BOOLEAN :
          /\ succ[n - 1] = <<>>
          /\ cfg = AnalyzedCfg(n, succ, descending)
    /\ ReachedFrom({cfg.entry_block}) = Blocks
    /\ BuildIdle
    /\ DomIdle
    /\ SsaIdle
    /\ OptIdle
    /\ CacheIdle
    /\ TypeIdle
    /\ DuIdle
    /\ JtIdle
    /\ CpIdle
    /\ cf_idom = [b \in Blocks |-> None]
    /\ dominators = <<>>
    /\ loops = {}
    /\ visited = {}
    /\ structure = None
    /\ walk = None
    /\ cf_pc = "dominators"

InitCfa == InitCfaOn(CfBlocks)

\* compute_dominators: one pass of `while changed`; after the pass that
\* changes nothing, the blocks that have a dominator are stored.
ComputeDominatorsPass ==
    /\ cf_pc = "dominators"
    /\ LET after == DominatorsPass(reverse_postorder(cfg.entry_block), 1, cf_idom)
       IN  IF after # cf_idom
           THEN /\ cf_idom' = after
                /\ UNCHANGED <<dominators, cf_pc>>
           ELSE /\ dominators' = [b \in {x \in Blocks : cf_idom[x] # None} |-> cf_idom[b][1]]
                /\ cf_pc' = "detect"
                /\ UNCHANGED cf_idom
    /\ UNCHANGED <<loops, visited, structure, walk>>
    /\ UNCHANGED cfaOthers

\* detect_loops.  When a call of dominates does not return, analyze stays in
\* that call's loop: the first such call of some iteration order of cfg.blocks.
DetectLoops ==
    /\ cf_pc = "detect"
    /\ LET stuck == {e \in Edges : analyzer_dominates(e[2], e[1]) = None}
           back_edges == {e \in Edges \ stuck : analyzer_dominates(e[2], e[1])[1]}
           body == [e \in back_edges |-> find_loop_body(e[2], e[1])]
       IN  IF stuck # {}
           THEN /\ \E e \in stuck : walk' = Hang(Some(e[2]), e[1])
                /\ cf_pc' = "dominates"
                /\ UNCHANGED loops
           ELSE IF \E e \in back_edges : body[e].hang # None
           THEN /\ \E e \in back_edges :
                      /\ body[e].hang # None
                      /\ walk' = body[e].hang
                /\ cf_pc' = "dominates"
                /\ UNCHANGED loops
           ELSE /\ loops' = {LoopInfo(e[2], body[e].body, e[1],
                                      determine_loop_type(e[2], body[e].body)) :
                                 e \in back_edges}
                /\ cf_pc' = "build"
                /\ UNCHANGED walk
    /\ UNCHANGED <<cf_idom, dominators, visited, structure>>
    /\ UNCHANGED cfaOthers

\* dominates: one iteration of its `while let` loop that neither returns nor
\* breaks.
DominatesStep ==
    /\ cf_pc = "dominates"
    /\ walk[1].current \in DOMAIN dominators
    /\ LET dom == dominators[walk[1].current]
       IN  /\ Some(dom) # walk[1].exit
           /\ dom # walk[1].current
           /\ walk' = Hang(walk[1].exit, dom)
    /\ UNCHANGED <<cf_idom, dominators, loops, visited, structure, cf_pc>>
    /\ UNCHANGED cfaOthers

\* build_control_structure(cfg, cfg.entry_block) and the return of analyze,
\* for one iteration order of the hashed collections.  When a build_region
\* does not return, analyze stays in that call's loop.
BuildControlStructure ==
    /\ cf_pc = "build"
    /\ \E order \in HashOrders(Blocks) :
          LET built == build_control_structure(cfg.entry_block, visited, order)
          IN  IF built.hang = None
              THEN /\ structure' = Some(built.node)
                   /\ visited' = built.visited
                   /\ cf_pc' = "done"
                   /\ UNCHANGED walk
              ELSE /\ walk' = built.hang
                   /\ visited' = built.visited
                   /\ cf_pc' = "build_region"
                   /\ UNCHANGED structure
    /\ UNCHANGED <<cf_idom, dominators, loops>>
    /\ UNCHANGED cfaOthers

\* build_region: one iteration of its `loop` at a block with one successor.
RegionStep ==
    /\ cf_pc = "build_region"
    /\ Some(walk[1].current) # walk[1].exit
    /\ walk[1].current \in Blocks
    /\ Len(Successors(walk[1].current)) = 1
    /\ walk' = Hang(walk[1].exit, Successors(walk[1].current)[1])
    /\ UNCHANGED <<cf_idom, dominators, loops, visited, structure, cf_pc>>
    /\ UNCHANGED cfaOthers

NextCfa ==
    \/ ComputeDominatorsPass
    \/ DetectLoops
    \/ DominatesStep
    \/ BuildControlStructure
    \/ RegionStep

CfaSpec == InitCfa /\ [][NextCfa]_vars

(***************************************************************************)
(* Claims about control-structure recovery                                *)
(***************************************************************************)

\* C13: once analyze has returned, the blocks recorded as loop headers are
\* the reachable blocks H with an edge u->H from a reachable block u such
\* that every path from the entry to u passes through H.
C13_LoopHeadersAreDominatingTargets ==
    cf_pc = "done" =>
        \A H \in Reachable :
            (\E l \in loops : l.header = H)
                <=> (\E u \in Reachable : InSeq(H, Successors(u)) /\ EveryPathPasses(H, u))

RECURSIVE ChainEnds(_, _, _)
\* The `loop` of build_region, at `current`, reaches one of its breaks: the
\* end block, a block without successors or a branch.
ChainEnds(end, current, seen) ==
    IF Some(current) = end \/ current \notin Blocks \/ Len(Successors(current)) # 1 THEN TRUE
    ELSE IF Successors(current)[1] \in seen \cup {current} THEN FALSE
    ELSE ChainEnds(end, Successors(current)[1], seen \cup {current})

\* analyze is inside a loop of dominates or of build_region that comes back
\* to the block it is at without having reached an exit.
InEndlessLoop ==
    \/ /\ cf_pc = "dominates"
       /\ DominatesLoop(walk[1].exit[1], walk[1].current, {walk[1].current}) = None
    \/ /\ cf_pc = "build_region"
       /\ ~ChainEnds(walk[1].exit, walk[1].current, {})

\* C14: analyze terminates: it never is inside a loop that cannot end.
C14_AnalyzeReturns == ~InEndlessLoop

RECURSIVE IfNodes(_)
\* The if-then and if-then-else nodes of a structure tree.
IfNodes(node) ==
    CASE node.kind = "BasicBlock" -> {}
      [] node.kind = "Sequence" -> UNION {IfNodes(node.items[i]) : i \in 1..Len(node.items)}
      [] node.kind = "IfThen" -> {node} \cup IfNodes(node.then_branch)
      [] node.kind = "IfThenElse" ->
            {node} \cup IfNodes(node.then_branch) \cup IfNodes(node.else_branch[1])
      [] node.kind = "Switch" ->
            UNION {IfNodes(node.cases[i][2]) : i \in 1..Len(node.cases)}
      [] OTHER -> IfNodes(node.body)

RECURSIVE BlocksIn(_)
\* The blocks that appear in a structure tree.
BlocksIn(node) ==
    CASE node.kind = "BasicBlock" -> {node.block}
      [] node.kind = "Sequence" -> UNION {BlocksIn(node.items[i]) : i \in 1..Len(node.items)}
      [] node.kind = "IfThen" -> {node.condition_block} \cup BlocksIn(node.then_branch)
      [] node.kind = "IfThenElse" ->
            {node.condition_block} \cup BlocksIn(node.then_branch)
                                   \cup BlocksIn(node.else_branch[1])
      [] node.kind = "Switch" ->
            {node.condition_block}
                \cup UNION {BlocksIn(node.cases[i][2]) : i \in 1..Len(node.cases)}
      [] node.kind = "InfiniteLoop" -> BlocksIn(node.body)
      [] OTHER -> {node.condition_block} \cup BlocksIn(node.body)

\* C15: in the tree analyze returns, the node folded from a two-way branch
\* is an if-then exactly when the arms merge at the else successor itself;
\* otherwise it is an if-then-else whose branches hold the first block of
\* their arm and not the merge point.
C15_IfThenIffElseIsMerge ==
    cf_pc = "done" =>
        \A node \in IfNodes(structure[1]) :
            LET then_block == Successors(node.condition_block)[1]
                else_block == Successors(node.condition_block)[2]
                merge_point == find_merge_point(then_block, else_block)
            IN  /\ node.kind = "IfThen" <=> merge_point = Some(else_block)
                /\ node.kind = "IfThenElse" =>
                      /\ then_block \in BlocksIn(node.then_branch)
                      /\ else_block \in BlocksIn(node.else_branch[1])
                      /\ \A m \in Blocks :
                            merge_point = Some(m) =>
                               m \notin BlocksIn(node.then_branch)
                                           \cup BlocksIn(node.else_branch[1])

\* C27: once analyze has returned, every block that can be reached from the
\* entry appears in the structure tree, as a leaf or as the condition block
\* of a node.
C27_TreeHoldsReachableBlocks ==
    cf_pc = "done" => Reachable \subseteq BlocksIn(structure[1])

(***************************************************************************)
(* Type inference (type_inference.rs, TypeInference)                       *)
(***************************************************************************)

\* Longest op list given to TypeInference::run.
MaxTypeOps == 2

\* Type
TypeUnknown == [tag |-> "Unknown"]

TypeInt(int_ty) == [tag |-> "Int", kind |-> int_ty]

TypeFloat(float_ty) == [tag |-> "Float", kind |-> float_ty]

TypePointer(inner) == [tag |-> "Pointer", inner |-> inner]

\* Type::int_from_size
int_from_size(size, signed) ==
    CASE size = 1 /\ signed -> TypeInt("I8")
      [] size = 1 /\ ~signed -> TypeInt("U8")
      [] size = 2 /\ signed -> TypeInt("I16")
      [] size = 2 /\ ~signed -> TypeInt("U16")
      [] size = 4 /\ signed -> TypeInt("I32")
      [] size = 4 /\ ~signed -> TypeInt("U32")
      [] size = 8 /\ signed -> TypeInt("I64")
      [] size = 8 /\ ~signed -> TypeInt("U64")
      [] OTHER -> TypeUnknown

\* Type::float_from_size
float_from_size(size) ==
    CASE size = 4 -> TypeFloat("F32")
      [] size = 8 -> TypeFloat("F64")
      [] OTHER -> TypeUnknown

\* Type::size
type_size(t) ==
    CASE t.tag = "Unknown" -> 0
      [] t.tag = "Int" ->
            (CASE t.kind \in {"I8", "U8"} -> 1
               [] t.kind \in {"I16", "U16"} -> 2
               [] t.kind \in {"I32", "U32"} -> 4
               [] t.kind \in {"I64", "U64"} -> 8)
      [] t.tag = "Float" -> (IF t.kind = "F32" THEN 4 ELSE 8)
      [] t.tag = "Pointer" -> 8

RECURSIVE is_compatible_with(_, _)
\* Type::is_compatible_with
is_compatible_with(self, other) ==
    CASE self.tag = "Unknown" \/ other.tag = "Unknown" -> TRUE
      [] self.tag = "Int" /\ other.tag = "Int" -> TRUE
      [] self.tag = "Float" /\ other.tag = "Float" -> TRUE
      [] self.tag = "Pointer" /\ other.tag = "Pointer" ->
            is_compatible_with(self.inner, other.inner)
      [] OTHER -> self = other

\* A TypeConstraint (without the reason text).
TypeConstraint(varnode, type_) == [varnode |-> varnode, type_ |-> type_]

\* The add_constraint calls for the output (if any) and then for every
\* input, `ty` giving the type from the Varnode.
OutputThenInputs(op, out_ty(_), in_ty(_)) ==
    (IF op.output # None THEN <<TypeConstraint(op.output[1], out_ty(op.output[1]))>> ELSE <<>>)
        \o [i \in 1..Len(op.inputs) |-> TypeConstraint(op.inputs[i], in_ty(op.inputs[i]))]

\* The add_constraint call for the output alone.
OutputOnly(op, out_ty(_)) ==
    IF op.output # None THEN <<TypeConstraint(op.output[1], out_ty(op.output[1]))>> ELSE <<>>

\* collect_constraints_from_op: the add_constraint calls it makes, in order;
\* `inferred` is inferred_types at that moment.
collect_constraints_from_op(op, inferred) ==
    LET signed_int(v) == int_from_size(v.size, TRUE)
        unsigned_int(v) == int_from_size(v.size, FALSE)
        float(v) == float_from_size(v.size)
        bool(v) == TypeInt("I8")
    IN  CASE op.opcode \in {"IntAdd", "IntSub", "IntMult", "IntDiv", "IntSDiv",
                            "IntRem", "IntSRem"} ->
                OutputThenInputs(op, signed_int, signed_int)
          [] op.opcode \in {"FloatAdd", "FloatSub", "FloatMult", "FloatDiv"} ->
                OutputThenInputs(op, float, float)
          [] op.opcode = "Load" ->
                IF Len(op.inputs) >= 2 /\ op.output # None
                THEN <<TypeConstraint(op.inputs[2],
                                      TypePointer(int_from_size(op.output[1].size, TRUE)))>>
                ELSE <<>>
          [] op.opcode = "Store" ->
                IF Len(op.inputs) >= 3
                THEN <<TypeConstraint(op.inputs[2],
                                      TypePointer(int_from_size(op.inputs[3].size, TRUE)))>>
                ELSE <<>>
          [] op.opcode = "Copy" ->
                IF op.output # None /\ op.inputs # <<>> /\ op.inputs[1] \in DOMAIN inferred
                THEN <<TypeConstraint(op.output[1], inferred[op.inputs[1]])>>
                ELSE <<>>
          [] op.opcode \in {"IntEqual", "IntNotEqual", "IntLess", "IntSLess",
                            "IntLessEqual", "IntSLessEqual"} ->
                OutputThenInputs(op, bool, signed_int)
          [] op.opcode \in {"IntAnd", "IntOr", "IntXor", "IntNegate",
                            "IntLeft", "IntRight", "IntSRight"} ->
                OutputOnly(op, unsigned_int)
          [] op.opcode = "IntSExt" -> OutputOnly(op, signed_int)
          [] op.opcode = "IntZExt" -> OutputOnly(op, unsigned_int)
          [] op.opcode = "Call" -> OutputOnly(op, signed_int)
          [] OTHER -> <<>>

RECURSIVE add_constraints(_, _, _)
\* add_constraint for the calls added[i..]: st = [constraints, type_candidates].
add_constraints(added, i, st) ==
    IF i > Len(added) THEN st
    ELSE IF added[i].varnode.space = "Const" THEN add_constraints(added, i + 1, st)
    ELSE LET varnode == added[i].varnode
             before == IF varnode \in DOMAIN st.type_candidates
                       THEN st.type_candidates[varnode] ELSE <<>>
         IN  add_constraints(added, i + 1,
                 [constraints |-> Append(st.constraints, added[i]),
                  type_candidates |->
                      MapPut(st.type_candidates, varnode, Append(before, added[i].type_))])

RECURSIVE propagate_types(_, _, _)
\* TypeInference::propagate_types: inferred_types after the constraints
\* cs[i..] have been handled.
propagate_types(cs, i, inferred) ==
    IF i > Len(cs) THEN inferred
    ELSE LET varnode == cs[i].varnode
             type_ == cs[i].type_
         IN  IF varnode \in DOMAIN inferred
             THEN IF ~is_compatible_with(inferred[varnode], type_)
                  THEN propagate_types(cs, i + 1, inferred)
                  ELSE IF inferred[varnode].tag = "Unknown"
                  THEN propagate_types(cs, i + 1, MapPut(inferred, varnode, type_))
                  ELSE propagate_types(cs, i + 1, inferred)
             ELSE propagate_types(cs, i + 1, MapPut(inferred, varnode, type_))

RECURSIVE LargestFrom(_, _, _, _)
\* select_best_type, the last loop: the first candidate of the largest size.
LargestFrom(non_unknown, i, max_size, best) ==
    IF i > Len(non_unknown) THEN best
    ELSE IF type_size(non_unknown[i]) > max_size
    THEN LargestFrom(non_unknown, i + 1, type_size(non_unknown[i]), non_unknown[i])
    ELSE LargestFrom(non_unknown, i + 1, max_size, best)

\* TypeInference::select_best_type
select_best_type(candidates) ==
    LET non_unknown == SelectSeq(candidates, LAMBDA t : t.tag # "Unknown")
        pointers == SelectSeq(non_unknown, LAMBDA t : t.tag = "Pointer")
        floats == SelectSeq(non_unknown, LAMBDA t : t.tag = "Float")
    IN  IF non_unknown = <<>> THEN TypeUnknown
        ELSE IF pointers # <<>> THEN pointers[1]
        ELSE IF floats # <<>> THEN floats[1]
        ELSE LargestFrom(non_unknown, 1, 0, TypeUnknown)

\* TypeInference::resolve_types
resolve_types(candidates, inferred) ==
    [varnode \in DOMAIN inferred \cup {v \in DOMAIN candidates : candidates[v] # <<>>} |->
        IF varnode \in DOMAIN inferred THEN inferred[varnode]
        ELSE select_best_type(candidates[varnode])]

\* The registers the op lists are about: rax, rbx (8 bytes) and a 4-byte one,
\* as in the tests of type_inference.rs.
TypedRegisters == {register(0, 8), register(24, 8), register(8, 4)}

\* The ops of the lists given to run: for every opcode the op with any of
\* the registers as output and as (first variable) input.
TypedOps ==
    UNION {
      {binary(opcode, out, in, in, 0) : opcode \in {"IntAdd", "FloatAdd", "IntEqual", "IntAnd"}}
      \cup {unary(opcode, out, in, 0) : opcode \in {"Copy", "IntSExt", "IntZExt"}}
      \cup {PcodeOp("Load", Some(out), <<constant(0, 8), in>>, 0),
            PcodeOp("Store", None, <<constant(0, 8), out, in>>, 0),
            PcodeOp("Call", Some(out), <<constant(64, 8)>>, 0)}
      : out \in TypedRegisters, in \in TypedRegisters}

TypeInputs(n) == UNION {[1..k -> TypedOps] : k \in 0..n}

\* TypeInference::new, and run is called on an op list.
InitType ==
    /\ cfg = NewCfg
    /\ BuildIdle
    /\ DomIdle
    /\ SsaIdle
    /\ OptIdle
    /\ CacheIdle
    /\ CfaIdle
    /\ DuIdle
    /\ JtIdle
    /\ CpIdle
    /\ an_ops \in TypeInputs(MaxTypeOps)
    /\ constraints = <<>>
    /\ inferred_types = <<>>
    /\ type_candidates = <<>>
    /\ ti_i = 1
    /\ ti_pc = "infer"

\* infer_from_pcode: one iteration of `for op in ops`.
InferFromPcode ==
    /\ ti_pc = "infer"
    /\ IF ti_i > Len(an_ops)
       THEN /\ ti_pc' = "propagate"
            /\ UNCHANGED <<constraints, type_candidates, ti_i>>
       ELSE LET st == add_constraints(collect_constraints_from_op(an_ops[ti_i], inferred_types),
                                      1, [constraints |-> constraints,
                                          type_candidates |-> type_candidates])
            IN  /\ constraints' = st.constraints
                /\ type_candidates' = st.type_candidates
                /\ ti_i' = ti_i + 1
                /\ UNCHANGED ti_pc
    /\ UNCHANGED <<an_ops, inferred_types>>
    /\ UNCHANGED typeOthers

\* run: self.propagate_types()
PropagateTypes ==
    /\ ti_pc = "propagate"
    /\ inferred_types' = propagate_types(constraints, 1, inferred_types)
    /\ ti_pc' = "resolve"
    /\ UNCHANGED <<an_ops, constraints, type_candidates, ti_i>>
    /\ UNCHANGED typeOthers

\* run: self.resolve_types()
ResolveTypes ==
    /\ ti_pc = "resolve"
    /\ inferred_types' = resolve_types(type_candidates, inferred_types)
    /\ ti_pc' = "done"
    /\ UNCHANGED <<an_ops, constraints, type_candidates, ti_i>>
    /\ UNCHANGED typeOthers

NextType ==
    \/ InferFromPcode
    \/ PropagateTypes
    \/ ResolveTypes

TypeSpec == InitType /\ [][NextType]_vars

(***************************************************************************)
(* Claims about type inference                                             *)
(***************************************************************************)

\* The types collected for a Varnode, as a set.
CandidatesOf(varnode) ==
    {type_candidates[varnode][i] : i \in 1..Len(type_candidates[varnode])}

\* C16: after run, the type of every Varnode that has constraints is a
\* pointer candidate if there is one, else a float candidate if there is
\* one, else an integer candidate of the largest size if there is one, else
\* unknown; so it is a function of the set of constraints.
C16_TypeByPriority ==
    ti_pc = "done" =>
        \A varnode \in DOMAIN type_candidates :
            LET c == CandidatesOf(varnode)
                t == inferred_types[varnode]
            IN  IF \E x \in c : x.tag = "Pointer" THEN t \in c /\ t.tag = "Pointer"
                ELSE IF \E x \in c : x.tag = "Float" THEN t \in c /\ t.tag = "Float"
                ELSE IF \E x \in c : x.tag = "Int"
                THEN /\ t \in c
                     /\ t.tag = "Int"
                     /\ \A x \in c : type_size(x) <= type_size(t)
                ELSE t = TypeUnknown

(***************************************************************************)
(* Def-use chains (dataflow.rs)                                            *)
(***************************************************************************)

\* The longest op list handed to DefUseChain::build.
MaxDuOps == 3

\* impl From<&Varnode> for VarnodeId: the Varnode with generation 0.
VarnodeId(vn) ==
    [space |-> vn.space, hi |-> vn.hi, lo |-> vn.lo, size |-> vn.size, generation |-> 0]

\* build, `for input in &op.inputs`: push op_id on the uses of each input.
RECURSIVE RecordUses(_, _, _, _)
RecordUses(inputs, i, op_id, u) ==
    IF i > Len(inputs) THEN u
    ELSE LET vn_id == VarnodeId(inputs[i])
             old   == IF vn_id \in DOMAIN u THEN u[vn_id] ELSE <<>>
         IN  RecordUses(inputs, i + 1, op_id, MapPut(u, vn_id, Append(old, op_id)))

\* build, `for (op_id, op) in ops.iter().enumerate()`: op_id counts from 0.
\* defs.insert overwrites, so the last op that writes a Varnode defines it.
RECURSIVE build(_, _, _, _)
build(ops, op_id, d, u) ==
    IF op_id >= Len(ops) THEN [defs |-> d, uses |-> u]
    ELSE LET op == ops[op_id + 1]
             d2 == IF op.output # None
                   THEN MapPut(d, VarnodeId(op.output[1]), op_id)
                   ELSE d
         IN  build(ops, op_id + 1, d2, RecordUses(op.inputs, 1, op_id, u))

\* get_def: Option<&PcodeOp>.
get_def(vn) ==
    LET vn_id == VarnodeId(vn)
    IN  IF vn_id \notin DOMAIN defs THEN None
        ELSE IF defs[vn_id] < Len(du_ops) THEN Some(du_ops[defs[vn_id] + 1])
        ELSE None

\* The Varnodes of test_copy_propagation, and a constant.
DuVarnodes == {register(0, 4), unique(0, 4), unique(1, 4), constant(1, 4)}

DuOutputs == {register(0, 4), unique(0, 4), unique(1, 4)}

\* Copies between the Varnodes and additions that define them.
DuOps ==
    {unary("Copy", out, in, 4096) : out \in DuOutputs, in \in DuVarnodes}
    \cup {binary("IntAdd", out, register(8, 4), constant(1, 4), 4096) : out \in DuOutputs}

RECURSIVE DuInputs(_)
DuInputs(n) ==
    IF n = 0 THEN {<<>>}
    ELSE DuInputs(n - 1)
         \cup {Append(ops, op) : ops \in {s \in DuInputs(n - 1) : Len(s) = n - 1},
                                 op \in DuOps}

\* A DefUseChain::new() about to build the chain of an op list.
InitDefUseOn(inputs) ==
    /\ cfg = NewCfg
    /\ BuildIdle
    /\ DomIdle
    /\ SsaIdle
    /\ OptIdle
    /\ CacheIdle
    /\ CfaIdle
    /\ TypeIdle
    /\ JtIdle
    /\ CpIdle
    /\ du_ops \in inputs
    /\ defs = <<>>
    /\ uses = <<>>
    /\ traced = None
    /\ trace_current = None
    /\ trace_visited = {}
    /\ source = None
    /\ du_pc = "build"

InitDefUse == InitDefUseOn(DuInputs(MaxDuOps))

\* DefUseChain::build
Build ==
    /\ du_pc = "build"
    /\ LET chain == build(du_ops, 0, defs, uses)
       IN  /\ defs' = chain.defs
           /\ uses' = chain.uses
    /\ du_pc' = "built"
    /\ UNCHANGED <<du_ops, traced, trace_current, trace_visited, source>>
    /\ UNCHANGED duOthers

\* trace_copy_source is called: `current = vn.clone()`, `visited` empty.
TraceCopySource(vn) ==
    /\ du_pc = "built"
    /\ jt_pc = "idle"
    /\ traced' = Some(vn)
    /\ trace_current' = Some(vn)
    /\ trace_visited' = {}
    /\ du_pc' = "trace"
    /\ UNCHANGED <<du_ops, defs, uses, source>>
    /\ UNCHANGED duOthers

\* trace_copy_source: one iteration of the `loop`.
TraceStep ==
    /\ du_pc = "trace"
    /\ LET vn_id  == VarnodeId(trace_current[1])
           def_op == get_def(trace_current[1])
       IN  IF vn_id \in trace_visited
           THEN /\ source' = Some(None)
                /\ du_pc' = "traced"
                /\ UNCHANGED <<trace_current, trace_visited>>
           ELSE /\ trace_visited' = trace_visited \cup {vn_id}
                /\ IF def_op = None
                   THEN /\ source' = Some(None)
                        /\ du_pc' = "traced"
                        /\ UNCHANGED trace_current
                   ELSE IF def_op[1].opcode = "Copy" /\ def_op[1].inputs # <<>>
                   THEN /\ trace_current' = Some(def_op[1].inputs[1])
                        /\ UNCHANGED <<source, du_pc>>
                   ELSE /\ source' = Some(trace_current)
                        /\ du_pc' = "traced"
                        /\ UNCHANGED trace_current
    /\ UNCHANGED <<du_ops, defs, uses, traced>>
    /\ UNCHANGED duOthers

NextDefUse ==
    \/ Build
    \/ \E vn \in DuVarnodes : TraceCopySource(vn)
    \/ TraceStep

DefUseSpec == InitDefUse /\ [][NextDefUse]_vars

(***************************************************************************)
(* Claims about def-use chains                                             *)
(***************************************************************************)

\* The ops of the list that write vn.
DefiningOps(vn) == {i \in 1..Len(du_ops) : du_ops[i].output = Some(vn)}

\* vn is the output of a copy op of the list.
IsCopyOutput(vn) == \E i \in DefiningOps(vn) : du_ops[i].opcode = "Copy"

\* Where the copy chain that defines vn originates: the first Varnode on it
\* that is not the output of a copy; None when the chain comes back to a
\* Varnode it has been through.
RECURSIVE CopyOrigin(_, _)
CopyOrigin(vn, seen) ==
    IF vn \in seen THEN None
    ELSE IF IsCopyOutput(vn)
    THEN CopyOrigin(du_ops[CHOOSE i \in DefiningOps(vn) : TRUE].inputs[1], seen \cup {vn})
    ELSE Some(vn)

\* C17: in an op list that writes no Varnode twice, trace_copy_source of a
\* Varnode defined by a copy returns the Varnode at which the copy chain
\* originates, whether or not that Varnode has a defining op, and returns
\* nothing when the chain is a cycle.
C17_TraceReturnsChainOrigin ==
    (/\ du_pc = "traced"
     /\ \A vn \in DuVarnodes : Cardinality(DefiningOps(vn)) <= 1
     /\ IsCopyOutput(traced[1]))
        => source[1] = CopyOrigin(traced[1], {})

(***************************************************************************)
(* Copy propagation (dataflow.rs, CopyPropagation)                         *)
(***************************************************************************)

\* Applications of CopyPropagation::apply to one op list.
MaxApplications == 2

\* A trace that stops at the input of the first copy.
RECURSIVE TraceOneCopy(_, _)
TraceOneCopy(vn, seen) ==
    LET def_op == get_def(vn)
    IN  IF def_op = None THEN None
        ELSE IF def_op[1].opcode = "Copy" /\ def_op[1].inputs # <<>>
        THEN Some(def_op[1].inputs[1])
        ELSE Some(vn)

\* trace_copy_source, the `loop`: seen is `visited`.
RECURSIVE TraceLoop(_, _)
TraceLoop(vn, seen) ==
    LET vn_id  == VarnodeId(vn)
        def_op == get_def(vn)
    IN  IF vn_id \in seen THEN None
        ELSE IF def_op = None THEN None
        ELSE IF def_op[1].opcode = "Copy" /\ def_op[1].inputs # <<>>
        THEN TraceLoop(def_op[1].inputs[1], seen \cup {vn_id})
        ELSE Some(vn)

\* DefUseChain::trace_copy_source
trace_copy_source(vn) == TraceLoop(vn, {})

\* CopyPropagation::apply, the body of `for input in &mut op.inputs`.
Propagated(input) ==
    LET src == trace_copy_source(input)
    IN  IF src # None /\ src[1] # input THEN src[1] ELSE input

\* CopyPropagation::apply: the rewritten list and propagation_count.
RECURSIVE CountChanged(_, _, _)
CountChanged(ops, new_ops, i) ==
    IF i > Len(ops) THEN 0
    ELSE Cardinality({k \in 1..Len(ops[i].inputs) : ops[i].inputs[k] # new_ops[i].inputs[k]})
         + CountChanged(ops, new_ops, i + 1)

apply_copy_propagation(ops) ==
    LET new_ops == [i \in 1..Len(ops) |->
                       [ops[i] EXCEPT !.inputs = [k \in 1..Len(ops[i].inputs) |->
                                                     Propagated(ops[i].inputs[k])]]]
    IN  [ops |-> new_ops, propagation_count |-> CountChanged(ops, new_ops, 1)]

\* CopyPropagation::new(chain) with the chain about to be built from the op
\* list that apply is then given.
InitCopyProp ==
    /\ cfg = NewCfg
    /\ BuildIdle
    /\ DomIdle
    /\ SsaIdle
    /\ OptIdle
    /\ CacheIdle
    /\ CfaIdle
    /\ TypeIdle
    /\ JtIdle
    /\ du_ops \in DuInputs(MaxDuOps)
    /\ defs = <<>>
    /\ uses = <<>>
    /\ traced = None
    /\ trace_current = None
    /\ trace_visited = {}
    /\ source = None
    /\ du_pc = "build"
    /\ cp_ops = du_ops
    /\ propagation_count = 0
    /\ cp_applied = 0

\* CopyPropagation::apply
Apply ==
    /\ du_pc = "built"
    /\ cp_applied < MaxApplications
    /\ LET res == apply_copy_propagation(cp_ops)
       IN  /\ cp_ops' = res.ops
           /\ propagation_count' = res.propagation_count
    /\ cp_applied' = cp_applied + 1
    /\ UNCHANGED cpOthers

\* A new DefUseChain is built from the rewritten list and handed to a new
\* CopyPropagation.
Rebuild ==
    /\ du_pc = "built"
    /\ cp_applied = 1
    /\ du_ops # cp_ops
    /\ du_ops' = cp_ops
    /\ LET chain == build(cp_ops, 0, <<>>, <<>>)
       IN  /\ defs' = chain.defs
           /\ uses' = chain.uses
    /\ UNCHANGED <<traced, trace_current, trace_visited, source, du_pc>>
    /\ UNCHANGED cpVars
    /\ UNCHANGED duOthers

NextCopyProp ==
    \/ Build
    \/ Apply
    \/ Rebuild

CopyPropSpec == InitCopyProp /\ [][NextCopyProp]_vars

\* C22: a second CopyPropagation::apply on the list a first one produced,
\* with the same def-use chain or with one rebuilt from the rewritten list,
\* substitutes nothing and leaves the list as it is.
C22_SecondApplyChangesNothing ==
    [][(Apply /\ cp_applied = 1) => (cp_ops' = cp_ops /\ propagation_count' = 0)]_vars

\* apply has run twice with the same chain on a list whose inputs the first
\* run rewrote.
C22_Witness ==
    /\ cp_applied = 2
    /\ du_ops # cp_ops
    /\ propagation_count = 0

(***************************************************************************)
(* Jump-table detection (jumptable.rs)                                     *)
(***************************************************************************)

\* A u64 as its two halves.
U64(n) == [hi |-> 0, lo |-> n]

\* Varnode::offset
Offset(vn) == [hi |-> vn.hi, lo |-> vn.lo]

\* JumpTable { table_address, num_entries, entry_size, destinations, switch_var }.
JumpTable(table_address, num_entries, entry_size, destinations, switch_var) ==
    [table_address |-> table_address, num_entries |-> num_entries,
     entry_size |-> entry_size, destinations |-> destinations,
     switch_var |-> switch_var]

\* analyze_load_pattern: Option<JumpTable>.
analyze_load_pattern(addr_vn) ==
    LET addr_op == get_def(addr_vn)
    IN  IF addr_op = None THEN None
        ELSE IF addr_op[1].opcode = "PtrAdd" /\ Len(addr_op[1].inputs) >= 2
        THEN LET base    == addr_op[1].inputs[1]
                 offset  == addr_op[1].inputs[2]
                 mult_op == get_def(offset)
             IN  IF base.space = "Const"
                 THEN IF /\ mult_op # None
                         /\ mult_op[1].opcode = "IntMult"
                         /\ Len(mult_op[1].inputs) >= 2
                      THEN Some(JumpTable(Offset(base), 10,
                                          IF mult_op[1].inputs[2].space = "Const"
                                          THEN Offset(mult_op[1].inputs[2])
                                          ELSE U64(8),
                                          <<>>, mult_op[1].inputs[1]))
                      ELSE Some(JumpTable(Offset(base), 10, U64(8), <<>>, offset))
                 ELSE None
        ELSE None

\* analyze_indirect_branch: Option<JumpTable>.
analyze_indirect_branch(op) ==
    IF op.inputs = <<>> THEN None
    ELSE LET load_op == get_def(op.inputs[1])
         IN  IF /\ load_op # None
                /\ load_op[1].opcode = "Load"
                /\ Len(load_op[1].inputs) >= 2
             THEN analyze_load_pattern(load_op[1].inputs[2])
             ELSE None

\* The Varnodes of an indirect jump through a table: index, scaled offset,
\* entry address and branch target.
JtIndex == register(0, 8)

JtOffset == unique(0, 8)

JtAddr == unique(1, 8)

JtTarget == unique(2, 8)

\* What may define the offset, the entry address and the target, and the
\* branch; <<>> for no op.
JtOffsetDefs ==
    {<<binary("IntMult", JtOffset, JtIndex, constant(8, 8), 4096)>>,
     <<binary("IntMult", JtOffset, JtIndex, constant(4, 8), 4096)>>,
     <<binary("IntMult", JtOffset, JtIndex, register(16, 8), 4096)>>,
     <<binary("IntLeft", JtOffset, JtIndex, constant(3, 8), 4096)>>,
     <<>>}

JtAddrDefs ==
    {<<binary("PtrAdd", JtAddr, constant(8192, 8), JtOffset, 4096)>>,
     <<binary("PtrAdd", JtAddr, register(8, 8), JtOffset, 4096)>>,
     <<binary("IntAdd", JtAddr, constant(8192, 8), JtOffset, 4096)>>,
     <<>>}

JtTargetDefs ==
    {<<PcodeOp("Load", Some(JtTarget), <<constant(0, 8), JtAddr>>, 4096)>>,
     <<unary("Copy", JtTarget, JtAddr, 4096)>>,
     <<>>}

JtBranches ==
    {<<no_output("BranchInd", <<JtTarget>>, 4096)>>,
     <<no_output("BranchInd", <<JtIndex>>, 4096)>>,
     <<no_output("BranchInd", <<>>, 4096)>>,
     <<no_output("Return", <<>>, 4096)>>}

\* The op lists detect is run on: the address computation in program order
\* or with the branch first (the DefUseChain does not depend on the order).
JtInputs(offsets) ==
    {o \o a \o t \o b : o \in offsets, a \in JtAddrDefs, t \in JtTargetDefs, b \in JtBranches}
    \cup {b \o t \o a \o o : o \in offsets, a \in JtAddrDefs, t \in JtTargetDefs, b \in JtBranches}

\* JumpTableDetector::new(du_chain) on a chain that is about to be built
\* from the op list, followed by detect(ops) on the same list.
InitJump ==
    /\ cfg = NewCfg
    /\ BuildIdle
    /\ DomIdle
    /\ SsaIdle
    /\ OptIdle
    /\ CacheIdle
    /\ CfaIdle
    /\ TypeIdle
    /\ CpIdle
    /\ du_ops \in JtInputs(JtOffsetDefs)
    /\ defs = <<>>
    /\ uses = <<>>
    /\ traced = None
    /\ trace_current = None
    /\ trace_visited = {}
    /\ source = None
    /\ du_pc = "build"
    /\ tables = <<>>
    /\ jt_i = 1
    /\ jt_pc = "detect"

\* detect: one iteration of `for op in ops`.
DetectStep ==
    /\ jt_pc = "detect"
    /\ du_pc = "built"
    /\ jt_i <= Len(du_ops)
    /\ LET op    == du_ops[jt_i]
           table == IF op.opcode = "BranchInd" THEN analyze_indirect_branch(op) ELSE None
       IN  tables' = IF table # None THEN Append(tables, table[1]) ELSE tables
    /\ jt_i' = jt_i + 1
    /\ UNCHANGED jt_pc
    /\ UNCHANGED jtOthers

\* detect returns `tables`.
DetectReturn ==
    /\ jt_pc = "detect"
    /\ du_pc = "built"
    /\ jt_i > Len(du_ops)
    /\ jt_pc' = "done"
    /\ UNCHANGED <<tables, jt_i>>
    /\ UNCHANGED jtOthers

NextJump ==
    \/ Build
    \/ DetectStep
    \/ DetectReturn

JumpSpec == InitJump /\ [][NextJump]_vars

(***************************************************************************)
(* Claims about jump-table detection                                       *)
(***************************************************************************)

\* The ops of the list with the given opcode that write vn.
DefinedBy(vn, opcode) == {i \in DefiningOps(vn) : du_ops[i].opcode = opcode}

\* The (load, ptr-add, int-mult) triples through which the target of the
\* branch-ind op is computed as load(ptr-add(const base, int-mult(index,
\* const entry size))).
TablePatterns(op) ==
    IF op.inputs = <<>> THEN {}
    ELSE {p \in (1..Len(du_ops)) \X (1..Len(du_ops)) \X (1..Len(du_ops)) :
            /\ p[1] \in DefinedBy(op.inputs[1], "Load")
            /\ Len(du_ops[p[1]].inputs) >= 2
            /\ p[2] \in DefinedBy(du_ops[p[1]].inputs[2], "PtrAdd")
            /\ Len(du_ops[p[2]].inputs) >= 2
            /\ du_ops[p[2]].inputs[1].space = "Const"
            /\ p[3] \in DefinedBy(du_ops[p[2]].inputs[2], "IntMult")
            /\ Len(du_ops[p[3]].inputs) >= 2
            /\ du_ops[p[3]].inputs[2].space = "Const"}

\* Table address, entry size and switch variable of a table.
TableFacts(table) ==
    [table_address |-> table.table_address, entry_size |-> table.entry_size,
     switch_var |-> table.switch_var]

\* The tables of the branch-ind ops from position i on that match the
\* pattern, in the order of the ops.
RECURSIVE PatternTables(_)
PatternTables(i) ==
    IF i > Len(du_ops) THEN <<>>
    ELSE LET op == du_ops[i]
         IN  IF op.opcode = "BranchInd" /\ TablePatterns(op) # {}
             THEN LET p == CHOOSE q \in TablePatterns(op) : TRUE
                  IN  <<[table_address |-> Offset(du_ops[p[2]].inputs[1]),
                         entry_size |-> Offset(du_ops[p[3]].inputs[2]),
                         switch_var |-> du_ops[p[3]].inputs[1]]>> \o PatternTables(i + 1)
             ELSE PatternTables(i + 1)

\* C18: in an op list that writes no Varnode twice, detect returns one
\* table for each branch-ind op whose target is load(ptr-add(const base,
\* int-mult(index, const entry size))) and none for any other op, and each
\* table has the base as table address, the constant as entry size and the
\* index as switch variable.
C18_TableExactlyOnPattern ==
    jt_pc = "done" =>
        [i \in 1..Len(tables) |-> TableFacts(tables[i])] = PatternTables(1)

(***************************************************************************)
(* The pipeline (parallel_analyzer.rs, decompile_function_uncached)        *)
(*                                                                         *)
(* The calls the function makes, in its order, each handing its argument   *)
(* to the stage called; the stages run as modelled above.  The functions   *)
(* lifted are straight-line, so the CFG has one block.                     *)
(***************************************************************************)

InitPipeline ==
    /\ cfg = NewCfg
    /\ BuildIdle
    /\ DomIdle
    /\ SsaIdle
    /\ OptIdle
    /\ CacheIdle
    /\ AnalysesIdle

\* `translator.translate(code_slice, ..)`, then `optimizer.optimize(&mut
\* pcodes)` is called on the list it returned.
TranslateAndCallOptimize ==
    /\ opt_pc = "idle"
    /\ opt_input' \in LifterInputs(MaxInstructions) \ {<<>>}
    /\ opt_ops' = opt_input'
    /\ opt_pc' = "analyze"
    /\ UNCHANGED <<masks, nz_iteration, nz_i, nz_changed, iteration, opt_i,
                   opt_changed, stats>>
    /\ UNCHANGED optOthers

\* `ControlFlowGraph::from_pcodes(pcodes.clone())`, pcodes being the list
\* optimize has rewritten in place.
CallFromPcodes ==
    /\ opt_pc = "done"
    /\ build_pc = "idle"
    /\ pcodes' = opt_ops
    /\ current_block' = IF opt_ops = <<>> THEN BasicBlock(0, 0)
                        ELSE BasicBlock(0, opt_ops[1].address)
    /\ cfg' = IF opt_ops = <<>> THEN NewCfg
              ELSE [NewCfg EXCEPT !.entry_block = 0, !.next_block_id = 1]
    /\ build_pc' = IF opt_ops = <<>> THEN "done" ELSE "loop"
    /\ UNCHANGED op_i
    /\ UNCHANGED buildOthers

\* `ssa.transform(&mut cfg)`: DominanceTree::compute is its first call.
CallTransform ==
    /\ build_pc = "done"
    /\ ssa_pc = "idle"
    /\ dom_pc' = "start"
    /\ ssa_pc' = "dominance"
    /\ UNCHANGED <<idom, rpo, changed, rpo_i, pred_i, new_idom, b1, b2, tree>>
    /\ UNCHANGED <<dominance_frontier, def_counters, var_stacks, phi_vars, rename_todo>>
    /\ UNCHANGED <<cfg, buildVars, optVars, cacheVars, analysisVars>>

\* `type_inference.run(&pcodes)`: the list is the local `pcodes`, of which
\* the CFG holds a clone.
CallTypeInference ==
    /\ ssa_pc = "done"
    /\ ti_pc = "idle"
    /\ an_ops' = pcodes
    /\ ti_pc' = "infer"
    /\ UNCHANGED <<constraints, inferred_types, type_candidates, ti_i>>
    /\ UNCHANGED typeOthers

\* `analyzer.analyze(&cfg)`
CallAnalyze ==
    /\ ti_pc = "done"
    /\ cf_pc = "idle"
    /\ cf_idom' = [b \in Blocks |-> None]
    /\ cf_pc' = "dominators"
    /\ UNCHANGED <<dominators, loops, visited, structure, walk>>
    /\ UNCHANGED cfaOthers

\* The steps of the stages that a one-block CFG enables (the walks over
\* predecessors, dominators and regions have nothing to walk).
NextPipeline ==
    \/ TranslateAndCallOptimize
    \/ AnalyzeOp
    \/ AnalyzePassEnd
    \/ ApplyRules
    \/ OptimizePassEnd
    \/ CallFromPcodes
    \/ FromPcodesStep
    \/ FromPcodesFinish
    \/ CallTransform
    \/ ComputeBegin
    \/ WhileChanged
    \/ ForBlock
    \/ StoreTree
    \/ ComputeFrontier
    \/ InsertPhiNodes
    \/ BeginRename
    \/ RenameVariables
    \/ TransformReturn
    \/ CallTypeInference
    \/ InferFromPcode
    \/ PropagateTypes
    \/ ResolveTypes
    \/ CallAnalyze
    \/ ComputeDominatorsPass
    \/ DetectLoops
    \/ BuildControlStructure

PipelineSpec == InitPipeline /\ [][NextPipeline]_vars

\* Every Varnode the list writes carries the version the renaming gave it.
Renamed(ops) ==
    \A i \in 1..Len(ops) :
        (ops[i].output # None /\ ops[i].output[1].space # "Const") => ops[i].output[1].hi >= 1

\* C30: the stages run in the order CFG construction, dominators, SSA
\* renaming, rewrite engine, later analyses: the dominators are computed on
\* the finished CFG, the renaming follows them, the rewrite engine runs
\* after the renaming and on renamed ops, and type inference and
\* structural analysis run after both, type inference on renamed ops.
C30_StagesInOrder ==
    /\ dom_pc # "idle" => build_pc = "done"
    /\ ssa_pc \in {"rename", "done"} => dom_pc = "done"
    /\ opt_pc # "idle" => (ssa_pc = "done" /\ Renamed(opt_input))
    /\ ti_pc # "idle" => (opt_pc = "done" /\ ssa_pc = "done" /\ Renamed(an_ops))
    /\ cf_pc # "idle" => (opt_pc = "done" /\ ssa_pc = "done")


====
